---- MODULE Spec2Model ----
(***************************************************************************)
(* goldfish.chat: the per-user conversation store (the UserChatStorage     *)
(* Durable Object), the worker routes that drive it and the streaming      *)
(* completion of POST /api/chat.                                           *)
(*                                                                         *)
(* A store handler is the async method UserChatStorage.fetch.  Every       *)
(* `await` of the code is a suspension point: a handler runs from one      *)
(* await to the next as one step, and steps of different handlers          *)
(* interleave.  `this.storage` is a reference to a JavaScript object, so   *)
(* the model keeps a heap of storage objects: a handler's local `storage`  *)
(* may point to an object that is no longer `this.storage`.                *)
(***************************************************************************)
EXTENDS Integers, Sequences, FiniteSets, TLC

VARIABLES
    mem,      \* mem[d]: this.storage of store instance d; 0 is null, else a heap reference
    heap,     \* heap[o]: the UserStorage object behind reference o
    disk,     \* disk[d]: the value under key 'data' of instance d's persistent storage
    now,      \* the last reading of Date.now()
    nextId,   \* number of ids handed out by crypto.randomUUID()
    handler,  \* handler[n]: the n-th invocation of UserChatStorage.fetch
    route     \* route[r]: the r-th invocation of a worker route

vars == <<mem, heap, disk, now, nextId, handler, route>>

(***************************************************************************)
(* Program constants                                                       *)
(***************************************************************************)
MAX_CHATS == 3

TITLE_LEN == 50

\* The all-zero UUID of the tests: an id that randomUUID never hands out.
UnknownId == 0

(***************************************************************************)
(* Bounds of the model                                                     *)
(***************************************************************************)
\* Date.now() readings are capped here (later readings tie).
MaxClock == 2

\* Requests handled one at a time, per behaviour.
MaxSeqReqs == 4

\* Creations, appends and deletions handled one at a time, per behaviour.
MaxFifoReqs == 5

\* Concurrent creations, per behaviour.
MaxRaceReqs == 4

\* Concurrent POST /chats requests (creations and appends), per behaviour.
MaxConcReqs == 3

(***************************************************************************)
(* Values                                                                  *)
(***************************************************************************)
Users == {"A", "B"}

IdFromNameShared(u) == <<"user_", "A">>

\* c.env.USER_STORAGE.idFromName(`user_${user.id}`)
IdFromName(u) == <<"user_", u>>

Instances == {IdFromName(u) : u \in Users}

Models == {"gpt-4o", "claude-3-haiku-20240307"}

Roles == {"user", "assistant"}

DefaultPreferences == [defaultModel |-> "gpt-4o", theme |-> "dark"]

DefaultStorage == [chats |-> <<>>, preferences |-> DefaultPreferences]

\* What storage.get('data') yields when nothing was ever put: undefined.
Undefined == [has |-> FALSE, val |-> [chats |-> <<>>, preferences |-> [defaultModel |-> "", theme |-> ""]]]

Stored(v) == [has |-> TRUE, val |-> v]

NoMessage == [role |-> "", content |-> <<>>, timestamp |-> 0]

NoChat == [id |-> UnknownId, title |-> [prefix |-> <<>>, suffix |-> ""], model |-> "",
           messages |-> <<>>, createdAt |-> 0, updatedAt |-> 0]

NoResp == [status |-> 0, chat |-> NoChat, chats |-> <<>>, prefs |-> DefaultPreferences]

(***************************************************************************)
(* Pure helpers: the array and string operations the code uses             *)
(***************************************************************************)
Min(a, b) == IF a <= b THEN a ELSE b

\* A second Date.now() in the same stretch of code: the millisecond may or may
\* not have changed since the reading t.
NextReading(t) == {t, Min(t + 1, MaxClock)}

\* s.slice(0, k)
Slice(s, k) == SubSeq(s, 1, Min(k, Len(s)))

\* body.message.content.slice(0, 50) + '...'
TitleOf(content) == [prefix |-> Slice(content, TITLE_LEN), suffix |-> "..."]

\* chats.findIndex(c => c.id === id), 1-based; 0 when there is none (-1 in the code)
FindIndex(chats, id) ==
    IF \E i \in 1..Len(chats) : chats[i].id = id
    THEN CHOOSE i \in 1..Len(chats) :
            chats[i].id = id /\ \A j \in 1..(i - 1) : chats[j].id # id
    ELSE 0

SpliceToEnd(chats, i) == SubSeq(chats, 1, i - 1)

\* chats.splice(index, 1)
Splice(chats, i) == SubSeq(chats, 1, i - 1) \o SubSeq(chats, i + 1, Len(chats))

\* Mutant of InsertByUpdatedAt: the comparator is b.updatedAt - a.updatedAt
RECURSIVE InsertByUpdatedAtDesc(_, _)
InsertByUpdatedAtDesc(sorted, c) ==
    IF sorted = <<>> THEN <<c>>
    ELSE IF Head(sorted).updatedAt >= c.updatedAt
         THEN <<Head(sorted)>> \o InsertByUpdatedAtDesc(Tail(sorted), c)
         ELSE <<c>> \o sorted

\* One insertion of a stable insertion sort: c goes after every element that does
\* not compare greater (a.updatedAt - b.updatedAt <= 0 keeps a before b).
RECURSIVE InsertByUpdatedAt(_, _)
InsertByUpdatedAt(sorted, c) ==
    IF sorted = <<>> THEN <<c>>
    ELSE IF Head(sorted).updatedAt <= c.updatedAt
         THEN <<Head(sorted)>> \o InsertByUpdatedAt(Tail(sorted), c)
         ELSE <<c>> \o sorted

\* Mutant of SortByUpdatedAt: the sort is left out
Unsorted(chats) == chats

\* chats.sort((a, b) => a.updatedAt - b.updatedAt): Array.prototype.sort is stable
RECURSIVE SortByUpdatedAt(_)
SortByUpdatedAt(chats) ==
    IF chats = <<>> THEN <<>>
    ELSE InsertByUpdatedAt(SortByUpdatedAt(SubSeq(chats, 1, Len(chats) - 1)), chats[Len(chats)])

\* Mutant of EvictOldest: pop() instead of shift()
EvictNewest(chats) == SubSeq(SortByUpdatedAt(chats), 1, Len(chats) - 1)

\* storage.chats.sort(...); storage.chats.shift()
EvictOldest(chats) == Tail(SortByUpdatedAt(chats))

\* Mutant of EvictIfFull: > instead of >=
EvictIfOverFull(chats) == IF Len(chats) > MAX_CHATS THEN EvictOldest(chats) ELSE chats

\* The FIFO step of a creation: lines 82-86
EvictIfFull(chats) == IF Len(chats) >= MAX_CHATS THEN EvictOldest(chats) ELSE chats

\* { ...storage.preferences, ...prefs } for a Partial<UserPreferences>
MergePrefs(old, partial) ==
    [defaultModel |-> IF partial.hasModel THEN partial.defaultModel ELSE old.defaultModel,
     theme        |-> IF partial.hasTheme THEN partial.theme ELSE old.theme]

Ids(chats) == {chats[i].id : i \in 1..Len(chats)}

ChatById(chats, id) == chats[FindIndex(chats, id)]

(***************************************************************************)
(* Requests to a store instance and the handlers that serve them           *)
(***************************************************************************)
NoPrefs == [hasModel |-> FALSE, defaultModel |-> "", hasTheme |-> FALSE, theme |-> ""]

Req(kind, hasId, id, message, model, prefs) ==
    [kind |-> kind, hasId |-> hasId, id |-> id, message |-> message, model |-> model,
     prefs |-> prefs]

ReqList == Req("list", FALSE, UnknownId, NoMessage, "", NoPrefs)
ReqGet(id) == Req("get", TRUE, id, NoMessage, "", NoPrefs)
ReqCreate(message, model) == Req("post", FALSE, UnknownId, message, model, NoPrefs)
ReqAppend(id, message, model) == Req("post", TRUE, id, message, model, NoPrefs)
ReqDelete(id) == Req("delete", TRUE, id, NoMessage, "", NoPrefs)
ReqClear == Req("clear", FALSE, UnknownId, NoMessage, "", NoPrefs)
ReqGetPrefs == Req("getPrefs", FALSE, UnknownId, NoMessage, "", NoPrefs)
ReqPutPrefs(p) == Req("putPrefs", FALSE, UnknownId, NoMessage, "", p)
ReqOther == Req("other", FALSE, UnknownId, NoMessage, "", NoPrefs)

\* The local `chat` of a POST handler: a reference to a Conversation object.  While
\* the object is an element of the handler's `storage.chats` it is named by its id;
\* once it has been removed from that array nothing can change it any more and the
\* handler keeps its last value.
NoLocal == [live |-> FALSE, id |-> UnknownId, snap |-> NoChat]

LiveChat(id) == [live |-> TRUE, id |-> id, snap |-> NoChat]

NewHandler(d, req, owner) ==
    [inst |-> d, req |-> req, owner |-> owner, pc |-> "start", ref |-> 0,
     loaded |-> Undefined, chat |-> NoLocal, resp |-> NoResp]

\* return Response.json(...): the handler is over and drops its locals
Respond(h, resp) ==
    [h EXCEPT !.pc = "done", !.ref = 0, !.loaded = Undefined, !.chat = NoLocal, !.resp = resp]

OkSuccess == [NoResp EXCEPT !.status = 200]

OkChat(c) == [NoResp EXCEPT !.status = 200, !.chat = c]

OkChats(cs) == [NoResp EXCEPT !.status = 200, !.chats = cs]

OkPrefs(p) == [NoResp EXCEPT !.status = 200, !.prefs = p]

NotFound == [NoResp EXCEPT !.status = 404]

InFlight(hs) == {n \in DOMAIN hs : hs[n].pc # "done"}

Quiet == InFlight(handler) = {}

\* The heap references still held by an instance or by a running handler; the
\* other objects are garbage.
Referenced(m, hs) == ({m[d] : d \in Instances} \cup {hs[n].ref : n \in DOMAIN hs}) \ {0}

Collect(hp, m, hs) == [o \in (DOMAIN hp) \cap Referenced(m, hs) |-> hp[o]]

NewRef(hp) == CHOOSE o \in 1..(Cardinality(DOMAIN hp) + 1) :
                 o \notin DOMAIN hp /\ \A p \in 1..(o - 1) : p \in DOMAIN hp

WithObject(hp, o, v) == [p \in (DOMAIN hp) \cup {o} |-> IF p = o THEN v ELSE hp[p]]

\* Handlers whose local `chat` is an element that a step removes from the array of
\* object o keep the element as it was when it was removed.
Detach(hs, o, before, after) ==
    [n \in DOMAIN hs |->
        IF hs[n].ref = o /\ hs[n].chat.live /\ hs[n].chat.id \in Ids(before) \ Ids(after)
        THEN [hs[n] EXCEPT !.chat = [live |-> FALSE, id |-> hs[n].chat.id,
                                     snap |-> ChatById(before, hs[n].chat.id)]]
        ELSE hs[n]]

\* getStorage(), up to its await: lines 13-15.  A hydrated instance hands out
\* this.storage; otherwise storage.get('data') is issued (it reads the value stored
\* when it is issued) and the caller is suspended until it settles.
CallGetStorage(h) ==
    IF mem[h.inst] = 0
    THEN [h EXCEPT !.pc = "get", !.loaded = disk[h.inst]]
    ELSE [h EXCEPT !.pc = "got", !.ref = mem[h.inst]]

\* await storage.get('data') || { chats: [], preferences: {...} }: line 15-21
Hydrate(loaded) == IF loaded.has THEN loaded.val ELSE DefaultStorage

\* saveStorage(): storage.put('data', this.storage) serialises the object that
\* this.storage names when put is called: line 27.
SaveStorage(dk, d, m, hp) == [dk EXCEPT ![d] = Stored(hp[m[d]])]

\* storage.put either stores the value or rejects and leaves the stored value as
\* it was; the caller is suspended at "put" until the write settles, at "putFails"
\* until it rejects.
Put(dk, d, m, hp, ok) == IF ok THEN SaveStorage(dk, d, m, hp) ELSE dk

Awaiting(ok) == IF ok THEN "put" ELSE "putFails"

\* this.storage = { chats: [], preferences: {...} }: lines 110-113
ClearedWithRecord == [DefaultStorage EXCEPT !.chats = <<NoChat>>]

\* Mutant of ClearedStorage: only the conversations are cleared, the preferences
\* of the store stay.
ClearedChatsOnly ==
    [chats |-> <<>>,
     preferences |-> (IF mem[IdFromName("A")] = 0 THEN Hydrate(disk[IdFromName("A")])
                      ELSE heap[mem[IdFromName("A")]]).preferences]

ClearedStorage == DefaultStorage

(***************************************************************************)
(* UserChatStorage.fetch, one action per stretch of code between awaits    *)
(***************************************************************************)
\* fetch is entered: the code up to the first await of the matching branch.
\*   POST /chats        await request.json()
\*   DELETE /clear      this.storage = {...}; await this.saveStorage()
\*   unknown route      404 at once
\*   every other route  await this.getStorage()
StartSaving(d, req, owner, ok) ==
    LET n == Len(handler) + 1
        h == NewHandler(d, req, owner)
    IN  /\ UNCHANGED <<now, nextId>>
        /\ CASE req.kind = "post" ->
                  /\ handler' = Append(handler, [h EXCEPT !.pc = "body"])
                  /\ UNCHANGED <<mem, heap, disk>>
             [] req.kind = "clear" ->
                  LET o  == NewRef(heap)
                      hs == Append(handler, [h EXCEPT !.pc = Awaiting(ok)])
                      m  == [mem EXCEPT ![d] = o]
                      hp == WithObject(heap, o, ClearedStorage)
                  IN  /\ handler' = hs
                      /\ mem' = m
                      /\ disk' = Put(disk, d, m, hp, ok)
                      /\ heap' = Collect(hp, m, hs)
             [] req.kind = "other" ->
                  /\ handler' = Append(handler, Respond(h, NotFound))
                  /\ UNCHANGED <<mem, heap, disk>>
             [] OTHER ->
                  /\ handler' = Append(handler, CallGetStorage(h))
                  /\ UNCHANGED <<mem, heap, disk>>

Start(d, req, owner) == StartSaving(d, req, owner, TRUE)

\* POST /chats: request.json() has settled; const storage = await this.getStorage()
BodyRead(n) ==
    /\ handler[n].pc = "body"
    /\ handler' = [handler EXCEPT ![n] = CallGetStorage(@)]
    /\ UNCHANGED <<mem, heap, disk, now, nextId, route>>

\* getStorage() after its await: this.storage = <what was read> || <defaults>;
\* return this.storage.  The object is a fresh one, whatever this.storage held.
Hydrated(n) ==
    /\ handler[n].pc = "get"
    /\ LET h  == handler[n]
           o  == NewRef(heap)
           hs == [handler EXCEPT ![n] = [h EXCEPT !.pc = "got", !.ref = o, !.loaded = Undefined]]
           m  == [mem EXCEPT ![h.inst] = o]
           hp == WithObject(heap, o, Hydrate(h.loaded))
       IN  /\ handler' = hs
           /\ mem' = m
           /\ heap' = Collect(hp, m, hs)
    /\ UNCHANGED <<disk, now, nextId, route>>

\* GET /chats: lines 36-39
ListChats(n) ==
    /\ handler[n].pc = "got" /\ handler[n].req.kind = "list"
    /\ LET h == handler[n]
           hs == [handler EXCEPT ![n] = Respond(h, OkChats(heap[h.ref].chats))]
       IN  /\ handler' = hs
           /\ heap' = Collect(heap, mem, hs)
    /\ UNCHANGED <<mem, disk, now, nextId, route>>

\* GET /chats/:id: lines 42-50
GetChat(n) ==
    /\ handler[n].pc = "got" /\ handler[n].req.kind = "get"
    /\ LET h == handler[n]
           chats == heap[h.ref].chats
           i == FindIndex(chats, h.req.id)
           hs == [handler EXCEPT ![n] =
                    IF i = 0 THEN Respond(h, NotFound) ELSE Respond(h, OkChat(chats[i]))]
       IN  /\ handler' = hs
           /\ heap' = Collect(heap, mem, hs)
    /\ UNCHANGED <<mem, disk, now, nextId, route>>

\* The conversation a creation builds: lines 73-80.  createdAt and updatedAt are
\* two readings of Date.now().
NewConversationWithoutMessage(id, req, t1, t2) ==
    [id |-> id, title |-> TitleOf(req.message.content), model |-> req.model,
     messages |-> <<>>, createdAt |-> t1, updatedAt |-> t2]

NewConversation(id, req, t1, t2) ==
    [id |-> id, title |-> TitleOf(req.message.content), model |-> req.model,
     messages |-> <<req.message>>, createdAt |-> t1, updatedAt |-> t2]

\* Mutant of AppendTo: the title is derived again from the appended message
AppendToRetitling(chats, i, message, t) ==
    [chats EXCEPT ![i] = [@ EXCEPT !.messages = Append(@, message), !.updatedAt = t,
                                   !.title = TitleOf(message.content)]]

\* chat.messages.push(body.message); chat.updatedAt = Date.now(): lines 69-70
AppendTo(chats, i, message, t) ==
    [chats EXCEPT ![i] = [@ EXCEPT !.messages = Append(@, message), !.updatedAt = t]]

\* lines 82-88: evict if full, then push
Insert(chats, chat) == Append(EvictIfFull(chats), chat)

\* POST /chats after getStorage: append to the conversation named by
\* body.conversationId or 404 (lines 63-70), else create, evicting the oldest
\* first when the array is full (lines 72-88); then saveStorage() is called and
\* awaited (line 91).
PostChatSaving(n, ok) ==
    /\ handler[n].pc = "got" /\ handler[n].req.kind = "post"
    /\ LET h == handler[n]
           o == h.ref
           chats == heap[o].chats
           i == FindIndex(chats, h.req.id)
       IN  IF h.req.hasId /\ i = 0
           THEN LET hs == [handler EXCEPT ![n] = Respond(h, NotFound)]
                IN  /\ handler' = hs
                    /\ heap' = Collect(heap, mem, hs)
                    /\ UNCHANGED <<disk, now, nextId>>
           ELSE IF h.req.hasId
           THEN LET hp == [heap EXCEPT ![o].chats = AppendTo(chats, i, h.req.message, now)]
                    hs == [handler EXCEPT ![n] = [h EXCEPT !.pc = Awaiting(ok), !.chat = LiveChat(h.req.id)]]
                IN  /\ UNCHANGED now
                    /\ handler' = hs
                    /\ disk' = Put(disk, h.inst, mem, hp, ok)
                    /\ heap' = Collect(hp, mem, hs)
                    /\ UNCHANGED nextId
           ELSE \E t2 \in NextReading(now) :
                LET id == nextId + 1
                    after == Insert(chats, NewConversation(id, h.req, now, t2))
                    hp == [heap EXCEPT ![o].chats = after]
                    hs == [Detach(handler, o, chats, after) EXCEPT
                              ![n] = [h EXCEPT !.pc = Awaiting(ok), !.chat = LiveChat(id)]]
                IN  /\ now' = t2
                    /\ nextId' = id
                    /\ handler' = hs
                    /\ disk' = Put(disk, h.inst, mem, hp, ok)
                    /\ heap' = Collect(hp, mem, hs)
    /\ UNCHANGED <<mem, route>>

PostChat(n) == PostChatSaving(n, TRUE)

\* Mutant of DeleteChat: the index === -1 check is left out, and splice(-1, 1)
\* removes the last element
DeleteChatUnchecked(n) ==
    /\ handler[n].pc = "got" /\ handler[n].req.kind = "delete"
    /\ LET h == handler[n]
           o == h.ref
           chats == heap[o].chats
           i == FindIndex(chats, h.req.id)
           after == Splice(chats, IF i = 0 THEN Len(chats) ELSE i)
           hp == [heap EXCEPT ![o].chats = after]
           hs == [Detach(handler, o, chats, after) EXCEPT ![n] = [h EXCEPT !.pc = "put"]]
       IN  /\ handler' = hs
           /\ disk' = SaveStorage(disk, h.inst, mem, hp)
           /\ heap' = Collect(hp, mem, hs)
    /\ UNCHANGED <<mem, now, nextId, route>>

\* DELETE /chats/:id after getStorage: lines 97-104
DeleteChatSaving(n, ok) ==
    /\ handler[n].pc = "got" /\ handler[n].req.kind = "delete"
    /\ LET h == handler[n]
           o == h.ref
           chats == heap[o].chats
           i == FindIndex(chats, h.req.id)
       IN  IF i = 0
           THEN LET hs == [handler EXCEPT ![n] = Respond(h, NotFound)]
                IN  /\ handler' = hs
                    /\ heap' = Collect(heap, mem, hs)
                    /\ UNCHANGED disk
           ELSE LET after == Splice(chats, i)
                    hp == [heap EXCEPT ![o].chats = after]
                    hs == [Detach(handler, o, chats, after) EXCEPT ![n] = [h EXCEPT !.pc = Awaiting(ok)]]
                IN  /\ handler' = hs
                    /\ disk' = Put(disk, h.inst, mem, hp, ok)
                    /\ heap' = Collect(hp, mem, hs)
    /\ UNCHANGED <<mem, now, nextId, route>>

DeleteChat(n) == DeleteChatSaving(n, TRUE)

\* /preferences after getStorage: GET answers (lines 121-123); PUT awaits
\* request.json() (line 125)
Preferences(n) ==
    /\ handler[n].pc = "got" /\ handler[n].req.kind \in {"getPrefs", "putPrefs"}
    /\ LET h == handler[n]
           hs == [handler EXCEPT ![n] =
                    IF h.req.kind = "getPrefs"
                    THEN Respond(h, OkPrefs(heap[h.ref].preferences))
                    ELSE [h EXCEPT !.pc = "body2"]]
       IN  /\ handler' = hs
           /\ heap' = Collect(heap, mem, hs)
    /\ UNCHANGED <<mem, disk, now, nextId, route>>

\* PUT /preferences after request.json(): merge, saveStorage() (lines 126-127)
PutPreferencesSaving(n, ok) ==
    /\ handler[n].pc = "body2"
    /\ LET h == handler[n]
           o == h.ref
           hp == [heap EXCEPT ![o].preferences = MergePrefs(@, h.req.prefs)]
           hs == [handler EXCEPT ![n] = [h EXCEPT !.pc = Awaiting(ok)]]
       IN  /\ handler' = hs
           /\ disk' = Put(disk, h.inst, mem, hp, ok)
           /\ heap' = Collect(hp, mem, hs)
    /\ UNCHANGED <<mem, now, nextId, route>>

PutPreferences(n) == PutPreferencesSaving(n, TRUE)

\* What a handler answers once saveStorage() has settled: lines 92, 105, 115, 128.
\* Response.json serialises the object as it is then.
SavedResponse(h, hp) ==
    CASE h.req.kind = "post" ->
            OkChat(IF h.chat.live THEN ChatById(hp[h.ref].chats, h.chat.id) ELSE h.chat.snap)
      [] h.req.kind = "putPrefs" -> OkPrefs(hp[h.ref].preferences)
      [] OTHER -> OkSuccess

\* storage.put has settled
Saved(n) ==
    /\ handler[n].pc = "put"
    /\ LET h == handler[n]
           hs == [handler EXCEPT ![n] = Respond(h, SavedResponse(h, heap))]
       IN  /\ handler' = hs
           /\ heap' = Collect(heap, mem, hs)
    /\ UNCHANGED <<mem, disk, now, nextId, route>>

\* storage.put has rejected: saveStorage throws, the catch of fetch logs the error
\* and answers 500 (lines 133-136).
InternalError == [NoResp EXCEPT !.status = 500]

SaveRejected(n) ==
    /\ handler[n].pc = "putFails"
    /\ LET hs == [handler EXCEPT ![n] = Respond(handler[n], InternalError)]
       IN  /\ handler' = hs
           /\ heap' = Collect(heap, mem, hs)
    /\ UNCHANGED <<mem, disk, now, nextId, route>>

\* The runtime drops an idle instance from memory; the next request constructs it
\* again with storage = null (lines 7-11).
Restart(d) ==
    /\ mem[d] # 0
    /\ \A n \in InFlight(handler) : handler[n].inst # d
    /\ mem' = [mem EXCEPT ![d] = 0]
    /\ heap' = Collect(heap, mem', handler)
    /\ UNCHANGED <<disk, now, nextId, handler, route>>

\* Time passes.
Tick ==
    /\ now < MaxClock
    /\ now' = now + 1
    /\ UNCHANGED <<mem, heap, disk, nextId, handler, route>>

Init ==
    /\ mem = [d \in Instances |-> 0]
    /\ heap = <<>>
    /\ disk = [d \in Instances |-> Undefined]
    /\ now = 0
    /\ nextId = 0
    /\ handler = <<>>
    /\ route = <<>>

(***************************************************************************)
(* Requests sent straight to one user's store, handled one at a time       *)
(***************************************************************************)
Store == IdFromName("A")

\* The message of the n-th request carries n as its text.
MessageOf(role) == [role |-> role, content |-> <<Len(handler) + 1>>, timestamp |-> now]

\* Ids a client can name: the ones handed out so far and one that never was.
KnownIds == {UnknownId} \cup (1..nextId)

PrefInputs ==
    {[NoPrefs EXCEPT !.hasTheme = TRUE, !.theme = "light"],
     [NoPrefs EXCEPT !.hasModel = TRUE, !.defaultModel = "claude-3-haiku-20240307"]}

ReadRequests == {ReqList, ReqGetPrefs, ReqOther} \cup {ReqGet(i) : i \in KnownIds}

CreateRequests(models) == {ReqCreate(MessageOf("user"), m) : m \in models}

AppendRequests(models) == {ReqAppend(i, MessageOf("assistant"), m) : i \in KnownIds, m \in models}

WriteRequests ==
    CreateRequests({"gpt-4o"}) \cup AppendRequests({"claude-3-haiku-20240307"})
    \cup {ReqClear} \cup {ReqDelete(i) : i \in KnownIds}
    \cup {ReqPutPrefs(p) : p \in PrefInputs}

SeqStart ==
    /\ Quiet
    /\ Len(handler) < MaxSeqReqs
    /\ \E req \in ReadRequests \cup WriteRequests : Start(Store, req, 0)
    /\ UNCHANGED route

Next ==
    \/ SeqStart
    \/ \E n \in DOMAIN handler : BodyRead(n)
    \/ \E n \in DOMAIN handler : Hydrated(n)
    \/ \E n \in DOMAIN handler : ListChats(n)
    \/ \E n \in DOMAIN handler : GetChat(n)
    \/ \E n \in DOMAIN handler : PostChat(n)
    \/ \E n \in DOMAIN handler : DeleteChat(n)
    \/ \E n \in DOMAIN handler : Preferences(n)
    \/ \E n \in DOMAIN handler : PutPreferences(n)
    \/ \E n \in DOMAIN handler : Saved(n)
    \/ Restart(Store)

Spec == Init /\ [][Next]_vars

(***************************************************************************)
(* Creations, appends and deletions only, handled one at a time: longer    *)
(* histories of the eviction order                                         *)
(***************************************************************************)
FifoStart ==
    /\ Quiet
    /\ Len(handler) < MaxFifoReqs
    /\ \E req \in CreateRequests({"gpt-4o"}) \cup AppendRequests({"gpt-4o"})
                  \cup {ReqDelete(i) : i \in 1..nextId} :
          Start(Store, req, 0)
    /\ UNCHANGED route

FifoNext ==
    \/ FifoStart
    \/ \E n \in DOMAIN handler : BodyRead(n)
    \/ \E n \in DOMAIN handler : Hydrated(n)
    \/ \E n \in DOMAIN handler : PostChat(n)
    \/ \E n \in DOMAIN handler : DeleteChat(n)
    \/ \E n \in DOMAIN handler : Saved(n)
    \/ Restart(Store)
    \/ Quiet /\ Tick

FifoSpec == Init /\ [][FifoNext]_vars

(***************************************************************************)
(* Properties of the store                                                 *)
(***************************************************************************)
\* The store of instance d as a request finds it: this.storage, or what
\* getStorage would load.
LogicalStore(d) == IF mem[d] = 0 THEN Hydrate(disk[d]) ELSE heap[mem[d]]

Records(chats) == {chats[i] : i \in 1..Len(chats)}

IsCreate(h) == h.req.kind = "post" /\ ~h.req.hasId

IsAppend(h) == h.req.kind = "post" /\ h.req.hasId

Succeeded(h) == h.pc = "done" /\ h.resp.status = 200

\* C1: every storage object, the persisted value and every GET /chats answer
\* hold at most MAX_CHATS conversations, in every reachable state.
C1_BoundInvariant ==
    /\ \A o \in DOMAIN heap : Len(heap[o].chats) <= MAX_CHATS
    /\ \A d \in Instances : Len(LogicalStore(d).chats) <= MAX_CHATS
    /\ \A d \in Instances : Len(Hydrate(disk[d]).chats) <= MAX_CHATS
    /\ \A n \in DOMAIN handler : Len(handler[n].resp.chats) <= MAX_CHATS

\* C1 witness: a creation has succeeded on a full store (more ids handed out
\* than the store can hold) and the store holds MAX_CHATS records.
C1_Witness ==
    /\ nextId > MAX_CHATS
    /\ Quiet
    /\ Len(LogicalStore(Store).chats) = MAX_CHATS
    /\ Len(Hydrate(disk[Store]).chats) = MAX_CHATS

\* The history is exactly k successful requests and nothing is in flight.
HistoryIs(k) == Len(handler) = k /\ \A n \in 1..k : Succeeded(handler[n])

\* C4: after four creations in a row on the empty store, the store holds exactly
\* the records the second, third and fourth creation returned.
C4_FifoEviction ==
    (HistoryIs(4) /\ \A n \in 1..4 : IsCreate(handler[n]))
    => /\ Records(LogicalStore(Store).chats) = {handler[n].resp.chat : n \in 2..4}
       /\ Records(Hydrate(disk[Store]).chats) = {handler[n].resp.chat : n \in 2..4}
       /\ handler[1].resp.chat.id \notin Ids(LogicalStore(Store).chats)

\* C4 witness: four creations in a row have been handled.
C4_Witness ==
    /\ HistoryIs(4) /\ \A n \in 1..4 : IsCreate(handler[n])
    /\ Cardinality({handler[n].resp.chat.id : n \in 1..4}) = 4

\* The history C1, C2, C3, append to C1, C4, where the append made C1's updatedAt
\* strictly the newest of the three.
AppendProtectsHistory ==
    /\ HistoryIs(5)
    /\ \A n \in {1, 2, 3, 5} : IsCreate(handler[n])
    /\ IsAppend(handler[4]) /\ handler[4].req.id = handler[1].resp.chat.id
    /\ handler[4].resp.chat.updatedAt > handler[2].resp.chat.updatedAt
    /\ handler[4].resp.chat.updatedAt > handler[3].resp.chat.updatedAt

\* C5: in that history the creation of C4 evicts C2: the store holds C1 (with the
\* appended message), C3 and C4.
C5_AppendProtects ==
    AppendProtectsHistory
    => /\ Records(LogicalStore(Store).chats)
             = {handler[4].resp.chat, handler[3].resp.chat, handler[5].resp.chat}
       /\ handler[2].resp.chat.id \notin Ids(LogicalStore(Store).chats)
       /\ Hydrate(disk[Store]) = LogicalStore(Store)

\* C5 witness: the history has happened.
C5_Witness == AppendProtectsHistory /\ Len(LogicalStore(Store).chats) = MAX_CHATS

\* Handler n takes the step that creates a conversation.
CreateStep(n) ==
    /\ n \in DOMAIN handler
    /\ handler[n].pc = "got" /\ IsCreate(handler[n])
    /\ handler'[n].pc = "put"

\* C6: a creation on a full store removes exactly one record, one whose updatedAt
\* is the smallest among the records present before, and keeps every other record
\* as it was; a creation on a store that is not full removes nothing.  The store
\* is the instance's this.storage, and what is persisted is the result.
C6_EvictsOldestOnly ==
    [][\A n \in DOMAIN handler : CreateStep(n) =>
          LET before == heap[handler[n].ref].chats
              after  == heap'[handler[n].ref].chats
              gone   == Records(before) \ Records(after)
          IN  /\ handler[n].ref = mem[Store]
              /\ LogicalStore(Store)' = heap'[handler[n].ref]
              /\ Hydrate(disk'[Store]) = LogicalStore(Store)'
              /\ Cardinality(Records(after) \ Records(before)) = 1
              /\ IF Len(before) >= MAX_CHATS
                 THEN /\ Cardinality(gone) = 1
                      /\ Len(after) = Len(before)
                      /\ \A g \in gone : \A c \in Records(before) : g.updatedAt <= c.updatedAt
                 ELSE /\ gone = {}
                      /\ Len(after) = Len(before) + 1
       ]_vars

\* C6 witness: a creation has evicted from a store whose records had different
\* updatedAt and whose array was not in updatedAt order (an append had touched an
\* earlier record): the first request's conversation survives the eviction of a
\* later one.
C6_Witness ==
    /\ Quiet
    /\ nextId > MAX_CHATS
    /\ \E i, j \in 1..Len(LogicalStore(Store).chats) :
          /\ LogicalStore(Store).chats[i].id = 1
          /\ LogicalStore(Store).chats[j].id = nextId
          /\ LogicalStore(Store).chats[i].updatedAt > LogicalStore(Store).chats[i].createdAt

\* A request that names a conversation: GET /chats/:id, POST /chats with a
\* conversationId, DELETE /chats/:id.
NamesChat(h) == h.req.kind \in {"get", "delete"} \/ IsAppend(h)

\* The handler has not yet looked the conversation up.
BeforeLookup(h) == h.pc \in {"body", "get", "got"}

\* C7: while a request naming an id that is not in the store waits for its lookup,
\* no step changes the store, in memory or persisted, or hands out an id, and the
\* lookup ends the handler with 404.
C7_NotFound ==
    [][\A n \in DOMAIN handler :
          (/\ BeforeLookup(handler[n])
           /\ NamesChat(handler[n])
           /\ handler[n].req.id \notin Ids(LogicalStore(Store).chats))
          => /\ LogicalStore(Store)' = LogicalStore(Store)
             /\ disk' = disk
             /\ nextId' = nextId
             /\ handler'[n].pc \in {"body", "get", "got", "done"}
             /\ handler'[n].pc = "done" => handler'[n].resp.status = 404
       ]_vars

\* C7 witness: a GET, an append and a DELETE have each been answered 404 while
\* the store held records.
C7_Witness ==
    /\ Len(LogicalStore(Store).chats) > 0
    /\ \A k \in {"get", "post", "delete"} :
          \E n \in DOMAIN handler :
             /\ handler[n].req.kind = k /\ NamesChat(handler[n])
             /\ handler[n].pc = "done" /\ handler[n].resp.status = 404

(***************************************************************************)
(* POST /chats requests to one store, their handlers interleaved at the    *)
(* awaits                                                                  *)
(***************************************************************************)
\* Creations only, all within one millisecond of the clock.
RaceStart ==
    /\ Len(handler) < MaxRaceReqs
    /\ \E req \in CreateRequests({"gpt-4o"}) : Start(Store, req, 0)
    /\ UNCHANGED route

RaceNext ==
    \/ RaceStart
    \/ \E n \in DOMAIN handler : BodyRead(n)
    \/ \E n \in DOMAIN handler : Hydrated(n)
    \/ \E n \in DOMAIN handler : PostChat(n)
    \/ \E n \in DOMAIN handler : Saved(n)

RaceSpec == Init /\ [][RaceNext]_vars

\* Creations and appends.
ConcStart ==
    /\ Len(handler) < MaxConcReqs
    /\ \E req \in CreateRequests({"gpt-4o"}) \cup AppendRequests({"gpt-4o"}) :
          Start(Store, req, 0)
    /\ UNCHANGED route

ConcNext ==
    \/ ConcStart
    \/ \E n \in DOMAIN handler : BodyRead(n)
    \/ \E n \in DOMAIN handler : Hydrated(n)
    \/ \E n \in DOMAIN handler : PostChat(n)
    \/ \E n \in DOMAIN handler : Saved(n)
    \/ Restart(Store)
    \/ Quiet /\ Tick

ConcSpec == Init /\ [][ConcNext]_vars

(***************************************************************************)
(* Properties of concurrent requests                                       *)
(***************************************************************************)
\* The message of request n is in the conversation that its answer names.
Kept(st, n) ==
    \E c \in Records(st.chats) :
       /\ c.id = handler[n].resp.chat.id
       /\ \E k \in 1..Len(c.messages) : c.messages[k] = handler[n].req.message

\* C2: once more than MAX_CHATS creations, started on the store that was never
\* hydrated and interleaved at their awaits, have all been answered, the store
\* holds exactly MAX_CHATS records with different ids, each with a log of one
\* message, in memory and persisted.
C2_ConcurrentCreations ==
    (/\ Quiet
     /\ Len(handler) > MAX_CHATS
     /\ \A n \in DOMAIN handler : IsCreate(handler[n]) /\ Succeeded(handler[n]))
    => LET chats == LogicalStore(Store).chats
       IN  /\ Len(chats) = MAX_CHATS
           /\ Cardinality(Ids(chats)) = MAX_CHATS
           /\ \A i \in 1..Len(chats) : Len(chats[i].messages) = 1
           /\ Hydrate(disk[Store]).chats = chats

\* C3: once a set of POST /chats calls with at most MAX_CHATS creations among
\* them (so no order of them evicts anything) has been answered, the message of
\* every call that reported success is in the store, in memory and persisted, as
\* after any one-at-a-time execution of the calls.
C3_Serializable ==
    (/\ Quiet
     /\ Cardinality({n \in DOMAIN handler : IsCreate(handler[n])}) <= MAX_CHATS)
    => \A n \in DOMAIN handler :
          Succeeded(handler[n])
          => Kept(LogicalStore(Store), n) /\ Kept(Hydrate(disk[Store]), n)

(***************************************************************************)
(* Round trip, clear and deletion, one request at a time                   *)
(***************************************************************************)
ReadsBack(n) ==
    /\ n + 1 \in DOMAIN handler
    /\ IsCreate(handler[n]) /\ Succeeded(handler[n])
    /\ handler[n + 1].req.kind = "get"
    /\ handler[n + 1].req.id = handler[n].resp.chat.id
    /\ handler[n + 1].pc = "done"

\* C11: a GET /chats/:id that is the next request after a creation and names the id
\* the creation returned is answered 200 with the record of that id whose message
\* list is exactly the created message.
C11_RoundTrip ==
    \A n \in DOMAIN handler :
        ReadsBack(n) =>
            /\ handler[n + 1].resp.status = 200
            /\ handler[n + 1].resp.chat.id = handler[n].resp.chat.id
            /\ handler[n + 1].resp.chat.messages = <<handler[n].req.message>>

\* C11 witness: the round trip has happened on a store that already held a record.
C11_Witness ==
    \E n \in DOMAIN handler :
        /\ ReadsBack(n)
        /\ Len(LogicalStore(Store).chats) >= 2
        /\ handler[n + 1].resp.chat.messages = <<[role |-> "user", content |-> <<n>>, timestamp |-> now]>>

IsClear(h) == h.req.kind = "clear"

\* C12: after DELETE /clear, as long as no other request has arrived, the store
\* holds no record and the default preferences, in memory and persisted, whatever
\* it held before and whether or not the request before was a clear as well; the
\* clear is answered 200.
C12_ClearIdempotent ==
    \A n \in DOMAIN handler :
        (IsClear(handler[n]) /\ n = Len(handler)) =>
            /\ LogicalStore(Store) = DefaultStorage
            /\ disk[Store] = Stored(DefaultStorage)
            /\ handler[n].pc = "done" => handler[n].resp.status = 200
            /\ (n > 1 /\ IsClear(handler[n - 1])) => handler[n - 1].resp.status = 200

\* C12 witness: two clears in a row have been answered after a creation.
C12_Witness ==
    \E n \in DOMAIN handler :
        /\ n >= 2 /\ n + 1 = Len(handler)
        /\ IsCreate(handler[n - 1]) /\ Succeeded(handler[n - 1])
        /\ IsClear(handler[n]) /\ IsClear(handler[n + 1])
        /\ Succeeded(handler[n]) /\ Succeeded(handler[n + 1])

Without(chats, id) == SelectSeq(chats, LAMBDA c : c.id # id)

DeletesPresent(n) ==
    /\ handler[n].req.kind = "delete"
    /\ handler[n].pc = "got"
    /\ handler[n].req.id \in Ids(LogicalStore(Store).chats)

\* C13: the step of DELETE /chats/:id that finds its id in the store removes the
\* record of that id and nothing else (the other records keep their content and
\* order, the preferences stay), and what it writes to persistent storage is the
\* resulting state; the step that ends the handler answers 200 and changes nothing.
C13_DeleteExact ==
    [][\A n \in DOMAIN handler :
          /\ (DeletesPresent(n) /\ handler'[n] # handler[n]) =>
                /\ LogicalStore(Store)'.chats = Without(LogicalStore(Store).chats, handler[n].req.id)
                /\ Len(LogicalStore(Store)'.chats) = Len(LogicalStore(Store).chats) - 1
                /\ LogicalStore(Store)'.preferences = LogicalStore(Store).preferences
                /\ disk'[Store] = Stored(LogicalStore(Store)')
                /\ handler'[n].pc = "put"
          /\ (handler[n].req.kind = "delete" /\ handler[n].pc = "put") =>
                /\ LogicalStore(Store)' = LogicalStore(Store)
                /\ disk' = disk
                /\ handler'[n] # handler[n] => Succeeded(handler'[n])
      ]_vars

\* C13 witness: a deletion of the middle one of three records has been answered 200
\* and the other two are left, in their order.
C13_Witness ==
    \E n \in DOMAIN handler :
        /\ n = Len(handler)
        /\ handler[n].req.kind = "delete" /\ Succeeded(handler[n])
        /\ handler[n].req.id = 2
        /\ Len(LogicalStore(Store).chats) = 2
        /\ LogicalStore(Store).chats[1].id = 1
        /\ LogicalStore(Store).chats[2].id = 3

(***************************************************************************)
(* The Worker routes: routes/chat.ts                                       *)
(***************************************************************************)
\* Text is a sequence of symbols.  The message of the r-th route request is
\* <<r>>; the fragments a completion yields are drawn from Chunks.
Chunks == {<<-1>>, <<-2, -3>>}

\* Largest number of fragments one completion yields here.
MaxChunks == 2

\* callAI: the providers are chosen by the model's prefix (gpt-, claude-, @cf/);
\* any other model name has no provider.
Routed(model) == model \in Models

ChatModels == Models \cup {"unlisted-model"}

\* stream.writeSSE({ data: JSON.stringify({ content: chunk }) }) and
\* stream.writeSSE({ data: '[DONE]' })
ContentEvent(chunk) == [done |-> FALSE, content |-> chunk]

DoneEvent == [done |-> TRUE, content |-> <<>>]

NoJson == [has |-> FALSE, id |-> UnknownId, messages |-> <<>>]

\* The JSON body of a POST /api/chat request, as far as the route looks at it:
\* whether conversationId is absent, a UUID or some other string, the length of
\* message, and whether model is there.
NoBody == [idForm |-> "absent", id |-> UnknownId, len |-> 0, hasModel |-> FALSE, model |-> ""]

Body(idForm, id, len, hasModel, model) ==
    [idForm |-> idForm, id |-> id, len |-> len, hasModel |-> hasModel, model |-> model]

\* ChatRequestSchema: lines 11-15
MIN_MESSAGE == 1

MAX_MESSAGE == 10000

SafeParseAnyLength(body) ==
    /\ body.idForm \in {"absent", "uuid"}
    /\ body.hasModel

SafeParse(body) ==
    /\ body.idForm \in {"absent", "uuid"}
    /\ body.len >= MIN_MESSAGE /\ body.len <= MAX_MESSAGE
    /\ body.hasModel

\* The locals of one invocation of a route.  session is what verifySession gave the
\* auth middleware, user is what the middleware set from it with c.set('user', ...).
NewRoute(kind, u, hasId, id, model) ==
    [kind |-> kind, user |-> u, hasId |-> hasId, id |-> id, model |-> model,
     pc |-> "call", h |-> Len(handler) + 1, chat |-> NoJson, fullChat |-> NoJson,
     fullResponse |-> <<>>, chunks |-> 0, connected |-> TRUE, sent |-> <<>>,
     out |-> NoResp, body |-> NoBody, session |-> u]

Settled(r) == handler[route[r].h].pc = "done"

Finished(rs) == \A r \in DOMAIN rs : rs[r].pc \in {"done", "failed"}

\* c.env.USER_STORAGE.get(idFromName(`user_${user.id}`)).fetch(...)
StubFetch(u, req, r) == Start(IdFromName(u), req, r)

\* JSON.stringify({ conversationId, message, model }): an undefined
\* conversationId is left out of the body.
SaveBody(hasId, id, message, model) ==
    IF hasId THEN ReqAppend(id, message, model) ELSE ReqCreate(message, model)

\* POST /api/chat up to the first await of stub.fetch: lines 27-44
ChatPostWith(u, body) ==
    LET r == Len(route) + 1
        hasId == body.idForm # "absent"
        userMessage == [role |-> "user", content |-> <<r>>, timestamp |-> now]
    IN  /\ route' = Append(route, [NewRoute("chat", u, hasId, body.id, body.model) EXCEPT
                                      !.pc = "save", !.body = body])
        /\ StubFetch(u, SaveBody(hasId, body.id, userMessage, body.model), r)

ChatPost(u, hasId, id, model) ==
    ChatPostWith(u, Body(IF hasId THEN "uuid" ELSE "absent", id, MIN_MESSAGE, TRUE, model))

\* return c.json({ error: 'Invalid request', ... }, 400): lines 22-25
BadRequest == [NoResp EXCEPT !.status = 400]

\* POST /api/chat from the validation on: lines 21-44
ChatRequest(u, body) ==
    IF SafeParse(body)
    THEN ChatPostWith(u, body)
    ELSE /\ route' = Append(route, [NewRoute("chat", u, body.idForm # "absent", body.id, body.model)
                                      EXCEPT !.pc = "done", !.h = 0, !.out = BadRequest,
                                             !.body = body])
         /\ UNCHANGED <<mem, heap, disk, now, nextId, handler>>

\* const chat = await saveResponse.json(); stub.fetch(`http://do/chats/${chat.id}`):
\* lines 45-48.  An error body has no id, and the id "undefined" names no record.
UserSaved(r) ==
    /\ route[r].kind = "chat" /\ route[r].pc = "save" /\ Settled(r)
    /\ LET resp == handler[route[r].h].resp
           chat == IF resp.status = 200
                   THEN [NoJson EXCEPT !.has = TRUE, !.id = resp.chat.id]
                   ELSE NoJson
       IN  /\ route' = [route EXCEPT ![r].chat = chat, ![r].pc = "history",
                                     ![r].h = Len(handler) + 1]
           /\ StubFetch(route[r].user, ReqGet(chat.id), r)

\* return streamSSE(c, ...): the response of the route is the event stream, with
\* the status of a successful response; the route sets no other status after its
\* validation.
StreamResponse == [NoResp EXCEPT !.status = 200]

\* const fullChat = await historyResponse.json(); streamSSE runs the callback,
\* which calls callAI({ model, messages: fullChat.messages, ... }): lines 49-58.
\* callAI throws for a model without provider, and a provider throws on
\* messages.map when messages is undefined.
\* Mutant of HistoryRead: the completion runs whatever the history read gave
HistoryReadTolerant(r) ==
    /\ route[r].kind = "chat" /\ route[r].pc = "history" /\ Settled(r)
    /\ LET resp == handler[route[r].h].resp
           fullChat == IF resp.status = 200
                       THEN [has |-> TRUE, id |-> resp.chat.id, messages |-> resp.chat.messages]
                       ELSE NoJson
       IN  route' = [route EXCEPT ![r].fullChat = fullChat,
                                  ![r].out = StreamResponse,
                                  ![r].pc = IF Routed(route[r].model) THEN "stream" ELSE "failed"]
    /\ UNCHANGED <<mem, heap, disk, now, nextId, handler>>

HistoryRead(r) ==
    /\ route[r].kind = "chat" /\ route[r].pc = "history" /\ Settled(r)
    /\ LET resp == handler[route[r].h].resp
           fullChat == IF resp.status = 200
                       THEN [has |-> TRUE, id |-> resp.chat.id, messages |-> resp.chat.messages]
                       ELSE NoJson
       IN  route' = [route EXCEPT ![r].fullChat = fullChat,
                                  ![r].out = StreamResponse,
                                  ![r].pc = IF fullChat.has /\ Routed(route[r].model)
                                            THEN "stream" ELSE "failed"]
    /\ UNCHANGED <<mem, heap, disk, now, nextId, handler>>

\* What the streamSSE callback hands to callAI: lines 55-58
CallAIArgs(r) == [model |-> route[r].model, messages |-> route[r].fullChat.messages]

\* stream.writeSSE(event): the event reaches the client while the client is
\* connected.  After a disconnect nothing reaches it; whether the write then
\* resolves or rejects, onChunk has already added the fragment to fullResponse, and
\* callOpenAI and callAnthropic call onChunk inside the try whose catch skips
\* malformed lines, so the completion goes on either way.
WriteSSE(rt, event) == IF rt.connected THEN Append(rt.sent, event) ELSE rt.sent

\* The client goes away while the completion is streaming.
Disconnect(r) ==
    /\ route[r].kind = "chat" /\ route[r].pc = "stream" /\ route[r].connected
    /\ route' = [route EXCEPT ![r].connected = FALSE]
    /\ UNCHANGED <<mem, heap, disk, now, nextId, handler>>

\* onChunk: fullResponse += chunk; await stream.writeSSE(...): lines 59-62
OnChunkOverwriting(r, chunk) ==
    /\ route[r].pc = "stream" /\ route[r].chunks < MaxChunks
    /\ route' = [route EXCEPT ![r].fullResponse = chunk,
                              ![r].chunks = @ + 1,
                              ![r].sent = WriteSSE(route[r], ContentEvent(chunk))]
    /\ UNCHANGED <<mem, heap, disk, now, nextId, handler>>

\* Mutant of OnChunk: every fragment is also saved to the store as it arrives
OnChunkSaving(r, chunk) ==
    /\ route[r].pc = "stream" /\ route[r].chunks < MaxChunks /\ Settled(r)
    /\ route' = [route EXCEPT ![r].fullResponse = @ \o chunk,
                              ![r].chunks = @ + 1,
                              ![r].sent = WriteSSE(route[r], ContentEvent(chunk)),
                              ![r].h = Len(handler) + 1]
    /\ StubFetch(route[r].user,
                 ReqAppend(route[r].chat.id,
                           [role |-> "assistant", content |-> chunk, timestamp |-> now],
                           route[r].model), r)

OnChunk(r, chunk) ==
    /\ route[r].pc = "stream" /\ route[r].chunks < MaxChunks
    /\ route' = [route EXCEPT ![r].fullResponse = @ \o chunk,
                              ![r].chunks = @ + 1,
                              ![r].sent = WriteSSE(route[r], ContentEvent(chunk))]
    /\ UNCHANGED <<mem, heap, disk, now, nextId, handler>>

\* The assistant message and its save: lines 66-79
SaveAssistant(r, pc) ==
    LET assistantMessage == [role |-> "assistant", content |-> route[r].fullResponse,
                             timestamp |-> now]
    IN  /\ route' = [route EXCEPT ![r].pc = pc, ![r].h = Len(handler) + 1]
        /\ StubFetch(route[r].user,
                     SaveBody(route[r].chat.has, route[r].chat.id, assistantMessage,
                              route[r].model), r)

\* callAI rejects: the callback of streamSSE is left at line 55 and nothing after
\* it runs.
CompletionFailsSavingPartial(r) ==
    /\ route[r].pc = "stream"
    /\ SaveAssistant(r, "failed")

CompletionFails(r) ==
    /\ route[r].pc = "stream"
    /\ route' = [route EXCEPT ![r].pc = "failed"]
    /\ UNCHANGED <<mem, heap, disk, now, nextId, handler>>

\* callAI resolves: the completion is exhausted.
CompletionEnds(r) ==
    /\ route[r].pc = "stream"
    /\ SaveAssistant(r, "assistant")

\* The save has been answered (the answer is not looked at);
\* await stream.writeSSE({ data: '[DONE]' }): line 81
AssistantSaved(r) ==
    /\ route[r].pc = "assistant" /\ Settled(r)
    /\ route' = [route EXCEPT ![r].pc = "done", ![r].sent = WriteSSE(route[r], DoneEvent)]
    /\ UNCHANGED <<mem, heap, disk, now, nextId, handler>>

\* /api/conversations: GET /, GET /:id, DELETE /:id and DELETE / each send one
\* request to the user's store: lines 95-100, 105-111, 119-127, 132-137
ConversationsCall(u, kind, id) ==
    LET r == Len(route) + 1
        req == CASE kind = "list" -> ReqList
                 [] kind = "get" -> ReqGet(id)
                 [] kind = "delete" -> ReqDelete(id)
                 [] kind = "clear" -> ReqClear
    IN  /\ route' = Append(route, NewRoute(kind, u, kind \in {"get", "delete"}, id, ""))
        /\ StubFetch(u, req, r)

\* return c.json(await response.json()): c.json answers 200 whatever the status of
\* the store's response was; only GET /:id looks at response.ok: lines 101,
\* 112-115, 128, 138
ConversationsReturn(r) ==
    /\ route[r].kind \in {"list", "get", "delete", "clear"}
    /\ route[r].pc = "call" /\ Settled(r)
    /\ LET resp == handler[route[r].h].resp
           out == IF route[r].kind = "get" /\ resp.status # 200
                  THEN NotFound
                  ELSE [resp EXCEPT !.status = 200]
       IN  route' = [route EXCEPT ![r].pc = "done", ![r].out = out]
    /\ UNCHANGED <<mem, heap, disk, now, nextId, handler>>

\* Any other request sent through the stub of user u, such as the two POST /chats
\* of routes/chat.ts (lines 41-44 and 72-79) or a request to /preferences, and
\* the response it is answered with.
StoreCall(u, req) ==
    LET r == Len(route) + 1
    IN  /\ route' = Append(route, NewRoute("store", u, req.hasId, req.id, req.model))
        /\ StubFetch(u, req, r)

StoreReturn(r) ==
    /\ route[r].kind = "store"
    /\ route[r].pc = "call" /\ Settled(r)
    /\ route' = [route EXCEPT ![r].pc = "done", ![r].out = handler[route[r].h].resp]
    /\ UNCHANGED <<mem, heap, disk, now, nextId, handler>>

(***************************************************************************)
(* POST /api/chat for one user, one request at a time                      *)
(***************************************************************************)
\* Largest number of chat requests in a history of ChatSpec.
MaxChatReqs == 2

ChatStart ==
    /\ Finished(route) /\ Quiet
    /\ Len(route) < MaxChatReqs
    /\ \E model \in ChatModels :
          \/ ChatPost("A", FALSE, UnknownId, model)
          \/ \E id \in KnownIds : ChatPost("A", TRUE, id, model)

ChatNext ==
    \/ ChatStart
    \/ \E n \in DOMAIN handler : BodyRead(n)
    \/ \E n \in DOMAIN handler : Hydrated(n)
    \/ \E n \in DOMAIN handler : GetChat(n)
    \/ \E n \in DOMAIN handler : PostChat(n)
    \/ \E n \in DOMAIN handler : Saved(n)
    \/ \E r \in DOMAIN route : UserSaved(r)
    \/ \E r \in DOMAIN route : HistoryRead(r)
    \/ \E r \in DOMAIN route, chunk \in Chunks : OnChunk(r, chunk)
    \/ \E r \in DOMAIN route : CompletionFails(r)
    \/ \E r \in DOMAIN route : CompletionEnds(r)
    \/ \E r \in DOMAIN route : AssistantSaved(r)
    \/ Restart(Store)
    \/ Quiet /\ Tick

ChatSpec == Init /\ [][ChatNext]_vars

(***************************************************************************)
(* Properties of a chat turn                                               *)
(***************************************************************************)
\* The id of the conversation in which the turn of route r saved its user message.
TurnOf(r) == route[r].chat.id

\* The records of the turn's user as the instance holds them and as persisted.
InMemory(r) == LogicalStore(IdFromName(route[r].user)).chats

Persisted(r) == Hydrate(disk[IdFromName(route[r].user)]).chats

\* The in-order concatenation of the fragments written to the client.
RECURSIVE Forwarded(_)
Forwarded(events) ==
    IF events = <<>> THEN <<>>
    ELSE (IF Head(events).done THEN <<>> ELSE Head(events).content) \o Forwarded(Tail(events))

IsUserMessageOf(m, r) == m.role = "user" /\ m.content = <<r>>

FailedAfterFragments(r) == route[r].pc = "failed" /\ Len(route[r].sent) > 0

HistoryWasRead(r) == route[r].pc \in {"stream", "failed", "assistant", "done"}

RetriesTurn(r) ==
    /\ r + 1 \in DOMAIN route
    /\ route[r + 1].hasId /\ route[r + 1].id = TurnOf(r)

\* C8: when the completion fails after some fragments, the conversation holds, in
\* memory and persisted, exactly the messages it held before the assistant turn
\* started, the last one being the user's message; and the next chat request with
\* the same conversationId is answered with the conversation (status 200) whose
\* messages are the earlier ones followed by the new user message.
C8_PartialFailure ==
    \A r \in DOMAIN route :
        FailedAfterFragments(r) =>
            /\ (r = Len(route) /\ Quiet) =>
                  \A chats \in {InMemory(r), Persisted(r)} :
                      /\ TurnOf(r) \in Ids(chats)
                      /\ LET ms == ChatById(chats, TurnOf(r)).messages
                         IN  /\ ms = route[r].fullChat.messages
                             /\ IsUserMessageOf(ms[Len(ms)], r)
            /\ (RetriesTurn(r) /\ route[r + 1].pc # "save") =>
                  /\ route[r + 1].chat.has
                  /\ TurnOf(r + 1) = TurnOf(r)
            /\ (RetriesTurn(r) /\ HistoryWasRead(r + 1)) =>
                  LET before == route[r].fullChat.messages
                      after  == route[r + 1].fullChat.messages
                  IN  /\ route[r + 1].fullChat.has
                      /\ Len(after) = Len(before) + 1
                      /\ SubSeq(after, 1, Len(before)) = before
                      /\ IsUserMessageOf(after[Len(after)], r + 1)

C8_Witness ==
    \E r \in DOMAIN route :
        /\ FailedAfterFragments(r)
        /\ RetriesTurn(r)
        /\ HistoryWasRead(r + 1)
        /\ Len(route[r + 1].fullChat.messages) = 2

\* C9: when the completion of a chat request is exhausted and the request has ended,
\* the conversation in which its user message was saved holds, in memory and
\* persisted, the messages it held before the assistant turn (ending with that user
\* message) followed by exactly one assistant message, whose content is the
\* in-order concatenation of the fragments forwarded to the client.
C9_ExhaustionAppends ==
    \A r \in DOMAIN route :
        (route[r].pc = "done" /\ r = Len(route)) =>
            /\ handler[route[r].h].resp.status = 200
            /\ \A chats \in {InMemory(r), Persisted(r)} :
                  /\ TurnOf(r) \in Ids(chats)
                  /\ LET ms == ChatById(chats, TurnOf(r)).messages
                         before == route[r].fullChat.messages
                     IN  /\ Len(ms) = Len(before) + 1
                         /\ SubSeq(ms, 1, Len(before)) = before
                         /\ IsUserMessageOf(before[Len(before)], r)
                         /\ ms[Len(ms)].role = "assistant"
                         /\ ms[Len(ms)].content = Forwarded(route[r].sent)

C9_Witness ==
    \E r \in DOMAIN route :
        /\ route[r].pc = "done" /\ r = Len(route)
        /\ Len(route[r].sent) = 3
        /\ Forwarded(route[r].sent) = <<-2, -3, -1>>
        /\ ChatById(InMemory(r), TurnOf(r)).messages[2].content = <<-2, -3, -1>>

(***************************************************************************)
(* Two users, each sending one request at a time, the two interleaved      *)
(***************************************************************************)
\* Largest number of requests in a history of IsoSpec, and largest number when
\* all of them are creations.
MaxIsoReqs == 3

MaxIsoCreations == 5

Idle(u) == \A r \in DOMAIN route : route[r].user = u => route[r].pc = "done"

IsCreation(rt) == rt.kind = "store" /\ rt.model # "" /\ ~rt.hasId

OnlyCreations == \A r \in DOMAIN route : IsCreation(route[r])

IsoStart(u) ==
    /\ Idle(u)
    /\ \/ /\ Len(route) < MaxIsoReqs \/ (OnlyCreations /\ Len(route) < MaxIsoCreations)
          /\ \E req \in CreateRequests({"gpt-4o"}) : StoreCall(u, req)
       \/ /\ Len(route) < MaxIsoReqs
          /\ \/ \E req \in AppendRequests({"gpt-4o"})
                     \cup {ReqGetPrefs, ReqPutPrefs([NoPrefs EXCEPT !.hasTheme = TRUE, !.theme = "light"])} :
                  StoreCall(u, req)
             \/ \E kind \in {"list", "clear"} : ConversationsCall(u, kind, UnknownId)
             \/ \E kind \in {"get", "delete"}, id \in KnownIds : ConversationsCall(u, kind, id)

IsoNext ==
    \/ \E u \in Users : IsoStart(u)
    \/ \E n \in DOMAIN handler : BodyRead(n)
    \/ \E n \in DOMAIN handler : Hydrated(n)
    \/ \E n \in DOMAIN handler : ListChats(n)
    \/ \E n \in DOMAIN handler : GetChat(n)
    \/ \E n \in DOMAIN handler : PostChat(n)
    \/ \E n \in DOMAIN handler : DeleteChat(n)
    \/ \E n \in DOMAIN handler : Preferences(n)
    \/ \E n \in DOMAIN handler : PutPreferences(n)
    \/ \E n \in DOMAIN handler : Saved(n)
    \/ \E r \in DOMAIN route : ConversationsReturn(r)
    \/ \E r \in DOMAIN route : StoreReturn(r)
    \/ \E d \in Instances : Restart(d)

IsoSpec == Init /\ [][IsoNext]_vars

(***************************************************************************)
(* Isolation of the users' stores                                          *)
(***************************************************************************)
\* The user a handler works for, and the user whose request carried a message
\* (the text of a message is the number of the handler that received it).
UserOf(hs, rs, n) == rs[hs[n].owner].user

OwnMessages(chats, u) ==
    \A i \in DOMAIN chats : \A k \in DOMAIN chats[i].messages :
        UserOf(handler, route, chats[i].messages[k].content[1]) = u

UserState(u) == [store |-> LogicalStore(IdFromName(u)), persisted |-> disk[IdFromName(u)]]

\* A step taken for user u: one of u's route invocations or store handlers
\* starts or moves on.
ActsFor(u) ==
    \/ \E r \in DOMAIN route' :
          route'[r].user = u /\ (r \notin DOMAIN route \/ route'[r] # route[r])
    \/ \E n \in DOMAIN handler' :
          UserOf(handler', route', n) = u /\ (n \notin DOMAIN handler \/ handler'[n] # handler[n])

NoForeignRecords ==
    /\ \A u \in Users :
          /\ OwnMessages(LogicalStore(IdFromName(u)).chats, u)
          /\ OwnMessages(Hydrate(disk[IdFromName(u)]).chats, u)
    /\ \A r \in DOMAIN route :
          route[r].pc = "done" =>
              /\ OwnMessages(route[r].out.chats, route[r].user)
              /\ OwnMessages(<<route[r].out.chat>>, route[r].user)
              /\ route[r].out.prefs.theme = "light" =>
                    \E q \in 1..r :
                        route[q].user = route[r].user /\ handler[route[q].h].req.kind = "putPrefs"

FrameOfOthers ==
    \A a, b \in Users :
        (a # b /\ ActsFor(a)) =>
            /\ UserState(b)' = UserState(b)
            /\ \A n \in DOMAIN handler :
                  (UserOf(handler, route, n) = b /\ handler[n].ref # 0) =>
                      /\ handler[n].ref \in DOMAIN heap'
                      /\ heap'[handler[n].ref] = heap[handler[n].ref]

\* C10: a step taken for one user (a creation with or without eviction, an append,
\* a deletion, a clear, a preference update, a read) leaves the other user's state
\* as it was, in memory, persisted and in the hands of the other user's handlers
\* in flight; every store and every response holds only records made of the
\* requesting user's own messages, and a response carries a changed preference
\* only after a preference update of the same user.
C10_Isolation == [] NoForeignRecords /\ [][FrameOfOthers]_vars

\* A's store has evicted at capacity while B's store holds a record and one of
\* B's handlers is in flight.
C10_Witness ==
    LET A == LogicalStore(IdFromName("A")).chats
        B == LogicalStore(IdFromName("B")).chats
    IN  /\ Len(A) = MAX_CHATS
        /\ Cardinality({n \in DOMAIN handler :
                UserOf(handler, route, n) = "A" /\ IsCreate(handler[n]) /\ Succeeded(handler[n])}) > MAX_CHATS
        /\ Len(B) >= 1
        /\ \E n \in InFlight(handler) : UserOf(handler, route, n) = "B" /\ handler[n].pc = "put"

(***************************************************************************)
(* The model of a continued conversation                                   *)
(***************************************************************************)
Streaming(r) == route[r].pc = "stream"

\* C14: while the completion of a chat request that continues a conversation is
\* running, the model handed to callAI is the model recorded in the conversation.
C14_ConversationModel ==
    \A r \in DOMAIN route :
        (route[r].hasId /\ Streaming(r) /\ TurnOf(r) \in Ids(InMemory(r))) =>
            CallAIArgs(r).model = ChatById(InMemory(r), TurnOf(r)).model

(***************************************************************************)
(* One request at a time, with writes to persistent storage that may fail  *)
(***************************************************************************)
\* Largest number of requests in a history of FailSpec.
MaxFailReqs == 3

FailStart ==
    /\ Quiet
    /\ Len(handler) < MaxFailReqs
    /\ \E req \in ReadRequests \cup WriteRequests, ok \in BOOLEAN :
          StartSaving(Store, req, 0, ok)
    /\ UNCHANGED route

FailNext ==
    \/ FailStart
    \/ \E n \in DOMAIN handler : BodyRead(n)
    \/ \E n \in DOMAIN handler : Hydrated(n)
    \/ \E n \in DOMAIN handler : ListChats(n)
    \/ \E n \in DOMAIN handler : GetChat(n)
    \/ \E n \in DOMAIN handler, ok \in BOOLEAN : PostChatSaving(n, ok)
    \/ \E n \in DOMAIN handler, ok \in BOOLEAN : DeleteChatSaving(n, ok)
    \/ \E n \in DOMAIN handler : Preferences(n)
    \/ \E n \in DOMAIN handler, ok \in BOOLEAN : PutPreferencesSaving(n, ok)
    \/ \E n \in DOMAIN handler : Saved(n)
    \/ \E n \in DOMAIN handler : SaveRejected(n)
    \/ Restart(Store)

FailSpec == Init /\ [][FailNext]_vars

WriteFailed(h) == h.pc = "done" /\ h.resp.status = 500

\* C15: when the last request handled has been answered 500 because its write to
\* persistent storage failed, the in-memory state equals the persisted state: the
\* attempted mutation is visible to no later read.
C15_FailedWriteNotVisible ==
    \A n \in DOMAIN handler :
        (WriteFailed(handler[n]) /\ n = Len(handler)) =>
            LogicalStore(Store) = Hydrate(disk[Store])

(***************************************************************************)
(* POST /api/chat with clients that may disconnect during the stream       *)
(***************************************************************************)
DisconnectStart ==
    /\ Finished(route) /\ Quiet
    /\ Len(route) < MaxChatReqs
    /\ \/ ChatPost("A", FALSE, UnknownId, "gpt-4o")
       \/ \E id \in 1..nextId : ChatPost("A", TRUE, id, "gpt-4o")

DisconnectNext ==
    \/ DisconnectStart
    \/ \E n \in DOMAIN handler : BodyRead(n)
    \/ \E n \in DOMAIN handler : Hydrated(n)
    \/ \E n \in DOMAIN handler : GetChat(n)
    \/ \E n \in DOMAIN handler : PostChat(n)
    \/ \E n \in DOMAIN handler : Saved(n)
    \/ \E r \in DOMAIN route : UserSaved(r)
    \/ \E r \in DOMAIN route : HistoryRead(r)
    \/ \E r \in DOMAIN route, chunk \in Chunks : OnChunk(r, chunk)
    \/ \E r \in DOMAIN route : Disconnect(r)
    \/ \E r \in DOMAIN route : CompletionFails(r)
    \/ \E r \in DOMAIN route : CompletionEnds(r)
    \/ \E r \in DOMAIN route : AssistantSaved(r)
    \/ Restart(Store)

DisconnectSpec == Init /\ [][DisconnectNext]_vars

\* C16: once a chat request whose client disconnected during the stream is over,
\* the conversation holds, in memory and persisted, the messages it held before the
\* assistant turn, the last one being the user's message of that request.
C16_DisconnectPersistsNothing ==
    \A r \in DOMAIN route :
        (/\ ~route[r].connected /\ route[r].chunks > 0
         /\ r = Len(route) /\ Finished(route) /\ Quiet) =>
            \A chats \in {InMemory(r), Persisted(r)} :
                /\ TurnOf(r) \in Ids(chats)
                /\ LET ms == ChatById(chats, TurnOf(r)).messages
                   IN  /\ ms = route[r].fullChat.messages
                       /\ IsUserMessageOf(ms[Len(ms)], r)

(***************************************************************************)
(* Chat requests naming a conversation the store does not hold             *)
(***************************************************************************)
\* The store answered the save of the user's message with 404.
SaveDeclined(r) ==
    /\ route[r].kind = "chat" /\ route[r].hasId
    /\ route[r].pc \notin {"call", "save"}
    /\ ~route[r].chat.has

\* C17: a chat request whose conversationId the store does not hold is answered
\* with status 404 once its response exists; its completion never runs, and it
\* leaves the store, in memory and persisted, without any message of its own.
C17_DeclinedNotFound ==
    \A r \in DOMAIN route :
        SaveDeclined(r) =>
            /\ route[r].pc # "stream"
            /\ route[r].chunks = 0
            /\ \A chats \in {InMemory(r), Persisted(r)} :
                  \A i \in DOMAIN chats : \A k \in DOMAIN chats[i].messages :
                      ~IsUserMessageOf(chats[i].messages[k], r)
            /\ Finished(route) => route[r].out.status = 404

(***************************************************************************)
(* /api/conversations/:id for an id the store does not hold                *)
(***************************************************************************)
\* The store answered the request of route r with 404.
StoreSaidNotFound(r) == route[r].pc = "done" /\ handler[route[r].h].resp.status = 404

\* C18: GET and DELETE /api/conversations/:id are answered with status 404 when the
\* store answered 404.
C18_ConversationNotFound ==
    \A r \in DOMAIN route :
        (route[r].kind \in {"get", "delete"} /\ StoreSaidNotFound(r)) =>
            route[r].out.status = 404

(***************************************************************************)
(* POST /api/chat with bodies the schema accepts or rejects                *)
(***************************************************************************)
\* Largest number of chat requests in a history of ValidSpec.
MaxValidReqs == 2

Bodies ==
    {Body(f, i, l, m, IF m THEN "gpt-4o" ELSE "") :
        f \in {"absent", "uuid", "malformed"}, i \in KnownIds,
        l \in {MIN_MESSAGE - 1, MIN_MESSAGE, MAX_MESSAGE, MAX_MESSAGE + 1}, m \in BOOLEAN}

ValidStart ==
    /\ Finished(route) /\ Quiet
    /\ Len(route) < MaxValidReqs
    /\ \E body \in Bodies : ChatRequest("A", body)

ValidNext ==
    \/ ValidStart
    \/ \E n \in DOMAIN handler : BodyRead(n)
    \/ \E n \in DOMAIN handler : Hydrated(n)
    \/ \E n \in DOMAIN handler : GetChat(n)
    \/ \E n \in DOMAIN handler : PostChat(n)
    \/ \E n \in DOMAIN handler : Saved(n)
    \/ \E r \in DOMAIN route : UserSaved(r)
    \/ \E r \in DOMAIN route : HistoryRead(r)
    \/ \E r \in DOMAIN route, chunk \in Chunks : OnChunk(r, chunk)
    \/ \E r \in DOMAIN route : CompletionFails(r)
    \/ \E r \in DOMAIN route : CompletionEnds(r)
    \/ \E r \in DOMAIN route : AssistantSaved(r)
    \/ Restart(Store)

ValidSpec == Init /\ [][ValidNext]_vars

\* The bodies the claim names.
Malformed(body) ==
    \/ body.len = 0
    \/ body.len > 10000
    \/ ~body.hasModel
    \/ body.idForm = "malformed"

Arrives(r) == r \in DOMAIN route' /\ r \notin DOMAIN route

\* C19: a chat request whose message is empty or longer than 10000 characters, whose
\* model is missing or whose conversationId is not a UUID is over as soon as it has
\* arrived, answered 400; its arrival changes neither the store (in memory,
\* persisted) nor the set of store requests, none of which is ever made for it, and
\* its completion never runs.
C19_Rejected ==
    /\ [] (\A r \in DOMAIN route :
              (route[r].kind = "chat" /\ Malformed(route[r].body)) =>
                  /\ route[r].pc = "done" /\ route[r].out.status = 400
                  /\ route[r].chunks = 0 /\ route[r].sent = <<>>
                  /\ \A n \in DOMAIN handler : handler[n].owner # r)
    /\ [][\A r \in DOMAIN route' :
              (Arrives(r) /\ Malformed(route'[r].body)) =>
                  UNCHANGED <<mem, heap, disk, nextId, handler>>]_vars

\* C19 witness: a request with a message of 10001 characters has been rejected
\* after a request with a message of 10000 characters has run to its end on the
\* same store.
C19_Witness ==
    /\ Len(route) = 2
    /\ route[1].body.len = 10000 /\ route[1].pc = "done" /\ route[1].out.status = 200
    /\ route[2].body.len = 10001 /\ route[2].out.status = 400
    /\ Len(LogicalStore(Store).chats) = 1

(***************************************************************************)
(* In-memory state and persisted state                                     *)
(***************************************************************************)
\* C20: whenever no handler of a store is in flight, the state the instance holds in
\* memory, if it holds one, is the state a hydration from persistent storage would
\* give: the value stored, or the default state (no records, defaultModel gpt-4o,
\* theme dark) if nothing was ever stored.
C20_QuiescentPersisted ==
    Quiet =>
        \A d \in Instances :
            /\ mem[d] # 0 => heap[mem[d]] = Hydrate(disk[d])
            /\ ~disk[d].has =>
                   LogicalStore(d) = [chats |-> <<>>,
                                      preferences |-> [defaultModel |-> "gpt-4o", theme |-> "dark"]]

(***************************************************************************)
(* A store whose persisted state holds more records than MAX_CHATS         *)
(***************************************************************************)
\* Largest number of records in a persisted state that was not written by the
\* store itself, and of requests handled after it, per behaviour.
MaxCorruptChats == 5

MaxCorruptReqs == 2

\* A persisted record with id i, last updated at t.
PersistedChat(i, t) ==
    [id |-> i, title |-> TitleOf(<<-i>>), model |-> "gpt-4o",
     messages |-> <<[role |-> "user", content |-> <<-i>>, timestamp |-> 0]>>,
     createdAt |-> 0, updatedAt |-> t]

\* Persisted states with more than MAX_CHATS records, in any order of updatedAt.
OverfullStorages ==
    {[chats |-> [i \in 1..k |-> PersistedChat(i, ts[i])], preferences |-> DefaultPreferences] :
        k \in (MAX_CHATS + 1)..MaxCorruptChats, ts \in [1..MaxCorruptChats -> 0..1]}

\* The instance is constructed (storage = null) over such a persisted state.
CorruptInit ==
    /\ mem = [d \in Instances |-> 0]
    /\ heap = <<>>
    /\ \E st \in OverfullStorages :
          /\ disk = [d \in Instances |-> IF d = Store THEN Stored(st) ELSE Undefined]
          /\ nextId = Len(st.chats)
    /\ now = 1
    /\ handler = <<>>
    /\ route = <<>>

CorruptStart ==
    /\ Quiet
    /\ Len(handler) < MaxCorruptReqs
    /\ \E req \in CreateRequests({"gpt-4o"}) \cup {ReqList} \cup {ReqDelete(i) : i \in {1}} :
          Start(Store, req, 0)
    /\ UNCHANGED route

CorruptNext ==
    \/ CorruptStart
    \/ \E n \in DOMAIN handler : BodyRead(n)
    \/ \E n \in DOMAIN handler : Hydrated(n)
    \/ \E n \in DOMAIN handler : ListChats(n)
    \/ \E n \in DOMAIN handler : PostChat(n)
    \/ \E n \in DOMAIN handler : DeleteChat(n)
    \/ \E n \in DOMAIN handler : Saved(n)

CorruptSpec == CorruptInit /\ [][CorruptNext]_vars

\* C21: a store found with more than MAX_CHATS records holds at most MAX_CHATS
\* records once a new-conversation creation has been answered.
C21_SelfHeals ==
    \A n \in DOMAIN handler :
        (IsCreate(handler[n]) /\ Succeeded(handler[n])) =>
            /\ Len(LogicalStore(Store).chats) <= MAX_CHATS
            /\ Len(Hydrate(disk[Store]).chats) <= MAX_CHATS

(***************************************************************************)
(* The frontend middleware: onRequest and withAuth                         *)
(***************************************************************************)
\* Requests to the frontend, per behaviour; they share no state and are
\* interleaved freely.
MaxFrontReqs == 2

\* Strings whose prefixes matter are sequences of characters.
StartsWith(s, prefix) == Len(s) >= Len(prefix) /\ SubSeq(s, 1, Len(prefix)) = prefix

ChatPrefix == <<"/", "c", "h", "a", "t">>

ApiPrefix == <<"/", "a", "p", "i">>

SignIn == <<"/", "s", "i", "g", "n", "-", "i", "n">>

Pathnames ==
    {<<"/">>, <<"/", "c", "h", "a", "t">>, <<"/", "c", "h", "a", "t", "/", "1">>, <<"/", "c", "h", "a", "t", "s">>, <<"/", "C", "h", "a", "t">>, <<"/", "a", "p", "i">>, <<"/", "a", "p", "i", "/", "c", "h", "a", "t">>, <<"/", "a", "p">>, <<"/", "s", "i", "g", "n", "-", "i", "n">>}

\* Mutant of Protected: the pathname is compared with ===
ProtectedExact(pathname) == pathname \in {ChatPrefix, ApiPrefix}

\* pathname.startsWith('/chat') || pathname.startsWith('/api'): line 9
Protected(pathname) == StartsWith(pathname, ChatPrefix) \/ StartsWith(pathname, ApiPrefix)

\* context.cookies.get('wos-session'): no cookie, a cookie with an empty value, a
\* cookie with a value
Cookies == {"absent", "empty", "sealed"}

\* authResponse of authenticateWithSessionCookie: authenticated, or one of the
\* reasons of failure
AuthResponses == {"authenticated", "invalid_jwt", "invalid_session_cookie",
                  "no_session_cookie_provided"}

Threw == "threw"

\* One invocation of the middleware.  calls counts the WorkOS calls made, the
\* constructor included; auth, refresh and session record what the calls gave;
\* jar is what the invocation did to the wos-session cookie.
NewPage(pathname, cookie) ==
    [kind |-> "page", pathname |-> pathname, cookie |-> cookie, pc |-> "done",
     calls |-> 0, auth |-> "", refresh |-> "", session |-> "", jar |-> "kept",
     user |-> "", reachedNext |-> FALSE, redirect |-> <<>>]

\* return context.redirect('/sign-in')
Redirect(pg) == [pg EXCEPT !.pc = "done", !.redirect = SignIn]

\* return next()
CallNext(pg) == [pg EXCEPT !.pc = "done", !.reachedNext = TRUE]

\* onRequest, and withAuth up to its first await: lines 5-33
OnRequest(pathname, cookie, constructed) ==
    LET pg == NewPage(pathname, cookie)
    IN  /\ route' = Append(route,
              IF ~Protected(pathname) THEN CallNext(pg)
              ELSE IF cookie # "sealed" THEN Redirect(pg)
              ELSE IF ~constructed THEN Redirect([pg EXCEPT !.calls = 1])
              ELSE [pg EXCEPT !.pc = "authenticate", !.calls = 2])
        /\ UNCHANGED <<mem, heap, disk, now, nextId, handler>>

\* authenticateWithSessionCookie has settled: lines 30-44
Authenticated(r, response) ==
    /\ route[r].pc = "authenticate"
    /\ route' = [route EXCEPT ![r] =
          LET pg == [@ EXCEPT !.auth = response]
          IN  IF response = Threw THEN Redirect(pg)
              ELSE IF response # "authenticated" /\ response # "invalid_jwt" THEN Redirect(pg)
              ELSE [pg EXCEPT !.pc = "refresh", !.calls = @ + 1]]
    /\ UNCHANGED <<mem, heap, disk, now, nextId, handler>>

\* refreshAndSealSessionData has settled: lines 41-70
Refreshed(r, response) ==
    /\ route[r].pc = "refresh"
    /\ route' = [route EXCEPT ![r] =
          LET pg == [@ EXCEPT !.refresh = response]
          IN  IF response = Threw THEN Redirect(pg)
              ELSE IF response # "authenticated" THEN Redirect([pg EXCEPT !.jar = "deleted"])
              ELSE [pg EXCEPT !.pc = "session", !.jar = "set", !.calls = @ + 1]]
    /\ UNCHANGED <<mem, heap, disk, now, nextId, handler>>

\* getSessionFromCookie has settled: lines 67-77
GotSession(r, response) ==
    /\ route[r].pc = "session"
    /\ route' = [route EXCEPT ![r] =
          LET pg == [@ EXCEPT !.session = response]
          IN  IF response = Threw THEN Redirect(pg)
              ELSE CallNext([pg EXCEPT !.user = response])]
    /\ UNCHANGED <<mem, heap, disk, now, nextId, handler>>

FrontStart ==
    /\ Len(route) < MaxFrontReqs
    /\ \E pathname \in Pathnames, cookie \in Cookies, constructed \in BOOLEAN :
          OnRequest(pathname, cookie, constructed)

FrontNext ==
    \/ FrontStart
    \/ \E r \in DOMAIN route, response \in AuthResponses \cup {Threw} : Authenticated(r, response)
    \/ \E r \in DOMAIN route, response \in {"authenticated", "failed", Threw} : Refreshed(r, response)
    \/ \E r \in DOMAIN route, response \in Users \cup {Threw} : GotSession(r, response)

FrontSpec == Init /\ [][FrontNext]_vars

\* The request's pathname starts with /chat or with /api.
ToProtectedPath(pg) ==
    \/ Len(pg.pathname) >= 5 /\ SubSeq(pg.pathname, 1, 5) = <<"/", "c", "h", "a", "t">>
    \/ Len(pg.pathname) >= 4 /\ SubSeq(pg.pathname, 1, 4) = <<"/", "a", "p", "i">>

\* What the invocation has learnt so far shows that there is no valid session.
WithoutSession(pg) ==
    \/ pg.cookie \in {"absent", "empty"}
    \/ pg.auth \in {"invalid_session_cookie", "no_session_cookie_provided"}
    \/ pg.refresh = "failed"
    \/ Threw \in {pg.auth, pg.refresh, pg.session}
    \/ pg.calls = 1

\* C22: an invocation for a protected path that has learnt there is no valid session
\* is over, has redirected to /sign-in and has not called next(); an invocation for
\* any other path is over at once, has called next() and has made no WorkOS call.
C22_ProtectedPaths ==
    \A r \in DOMAIN route :
        LET pg == route[r]
        IN  IF ToProtectedPath(pg)
            THEN /\ WithoutSession(pg) =>
                       pg.pc = "done" /\ pg.redirect = SignIn /\ ~pg.reachedNext
                 /\ pg.reachedNext =>
                       pg.auth \in {"authenticated", "invalid_jwt"}
                       /\ pg.refresh = "authenticated" /\ pg.session \in Users
            ELSE pg.pc = "done" /\ pg.reachedNext /\ pg.redirect = <<>> /\ pg.calls = 0

\* C22 witness: a request to /chat/1 whose refresh failed has been redirected, and
\* a request to /sign-in has reached next().
C22_Witness ==
    /\ Len(route) = 2
    /\ route[1].pathname = <<"/", "c", "h", "a", "t", "/", "1">> /\ route[1].refresh = "failed"
    /\ route[1].redirect = SignIn /\ route[1].jar = "deleted"
    /\ route[2].pathname = SignIn /\ route[2].reachedNext

(***************************************************************************)
(* The worker's entry point: auth middleware, mounted routes, /health      *)
(***************************************************************************)
\* Requests to the worker, handled one at a time, per behaviour.
MaxAuthReqs == 2

\* What verifySession resolves to: null, or the session of a user.
NoSession == "none"

Sessions == {NoSession} \cup Users

\* The requests the worker has a route for, and where the route is mounted.
Endpoints == {"chat", "list", "get", "delete", "clear", "models", "health"}

PathOf(endpoint) ==
    CASE endpoint = "chat" -> <<"/", "a", "p", "i", "/", "c", "h", "a", "t">>
      [] endpoint \in {"list", "clear"} -> <<"/", "a", "p", "i", "/", "c", "o", "n", "v", "e", "r", "s", "a", "t", "i", "o", "n", "s">>
      [] endpoint \in {"get", "delete"} -> <<"/", "a", "p", "i", "/", "c", "o", "n", "v", "e", "r", "s", "a", "t", "i", "o", "n", "s", "/", "1">>
      [] endpoint = "models" -> <<"/", "a", "p", "i", "/", "m", "o", "d", "e", "l", "s">>
      [] endpoint = "health" -> <<"/", "h", "e", "a", "l", "t", "h">>

\* Mutant of AuthApplies: app.use('/api/chat/*', ...)
AuthAppliesToChat(path) == StartsWith(path, <<"/", "a", "p", "i", "/", "c", "h", "a", "t">>)

\* app.use('/api/*', ...)
AuthApplies(path) == StartsWith(path, <<"/", "a", "p", "i", "/">>)

\* return c.json({ error: 'Unauthorized' }, 401)
Unauthorized == [NoResp EXCEPT !.status = 401]

\* A request answered without a store request: by the middleware, by /health, by
\* /api/models, or by the error handler when a route reads user.id of a user that
\* was never set.
Answered(endpoint, session, resp) ==
    /\ route' = Append(route, [NewRoute(endpoint, "", FALSE, UnknownId, "") EXCEPT
                                  !.pc = "done", !.h = 0, !.out = resp, !.session = session])
    /\ UNCHANGED <<mem, heap, disk, now, nextId, handler>>

\* One request to the worker: the auth middleware, then the route.
WorkerFetch(endpoint, session, id) ==
    IF AuthApplies(PathOf(endpoint)) /\ session = NoSession
    THEN Answered(endpoint, session, Unauthorized)
    ELSE IF endpoint \in {"health", "models"}
    THEN Answered(endpoint, session, OkSuccess)
    ELSE IF session = NoSession
    THEN Answered(endpoint, session, InternalError)
    ELSE IF endpoint = "chat"
    THEN ChatRequest(session, Body("absent", UnknownId, MIN_MESSAGE, TRUE, "gpt-4o"))
    ELSE ConversationsCall(session, endpoint, id)

AuthStart ==
    /\ Finished(route) /\ Quiet
    /\ Len(route) < MaxAuthReqs
    /\ \E endpoint \in Endpoints, session \in Sessions, id \in KnownIds :
          /\ (endpoint \notin {"get", "delete"} => id = UnknownId)
          /\ WorkerFetch(endpoint, session, id)

AuthNext ==
    \/ AuthStart
    \/ \E n \in DOMAIN handler : BodyRead(n)
    \/ \E n \in DOMAIN handler : Hydrated(n)
    \/ \E n \in DOMAIN handler : ListChats(n)
    \/ \E n \in DOMAIN handler : GetChat(n)
    \/ \E n \in DOMAIN handler : PostChat(n)
    \/ \E n \in DOMAIN handler : DeleteChat(n)
    \/ \E n \in DOMAIN handler : Saved(n)
    \/ \E r \in DOMAIN route : UserSaved(r)
    \/ \E r \in DOMAIN route : HistoryRead(r)
    \/ \E r \in DOMAIN route, chunk \in Chunks : OnChunk(r, chunk)
    \/ \E r \in DOMAIN route : CompletionFails(r)
    \/ \E r \in DOMAIN route : CompletionEnds(r)
    \/ \E r \in DOMAIN route : AssistantSaved(r)
    \/ \E r \in DOMAIN route : ConversationsReturn(r)

AuthSpec == Init /\ [][AuthNext]_vars

\* The request of invocation r went to a path under /api/.
UnderApi(r) == route[r].kind \in {"chat", "list", "get", "delete", "clear", "models"}

Writes(n) ==
    /\ n \in DOMAIN handler
    /\ handler[n].pc = "got"
    /\ handler'[n].pc \in {"put", "putFails"}

\* A DELETE /clear arrives.
ClearArrives ==
    /\ Len(handler') = Len(handler) + 1
    /\ handler'[Len(handler')].req.kind = "clear"

\* C24: a step after which the store holds an id it did not hold before is the
\* mutating step of a POST /chats without conversationId, and the id is the one
\* that creation assigned; a step after which the store no longer holds an id is
\* the mutating step of a DELETE /chats/:id for that id, the arrival of a DELETE
\* /clear, or the mutating step of a creation that found MAX_CHATS records, which
\* removes one id only.  The store is what a request finds: this.storage, or what
\* getStorage would load.
C24_Lifecycle ==
    [][LET before == Ids(LogicalStore(Store).chats)
           after  == Ids(LogicalStore(Store).chats)'
       IN  /\ after \ before # {} =>
                \E n \in DOMAIN handler :
                   /\ Writes(n) /\ IsCreate(handler[n])
                   /\ after \ before = {nextId'} /\ nextId' = nextId + 1
           /\ before \ after # {} =>
                \/ \E n \in DOMAIN handler :
                      /\ Writes(n) /\ handler[n].req.kind = "delete"
                      /\ before \ after = {handler[n].req.id}
                \/ ClearArrives
                \/ \E n \in DOMAIN handler :
                      /\ Writes(n) /\ IsCreate(handler[n])
                      /\ Len(LogicalStore(Store).chats) = MAX_CHATS
                      /\ Cardinality(before \ after) = 1
      ]_vars

\* The fields of a record that are set at its creation.
Identity(c) == [id |-> c.id, title |-> c.title, model |-> c.model, createdAt |-> c.createdAt]

Identities(chats) == [i \in 1..Len(chats) |-> Identity(chats[i])]

\* C25: across every step, a record that is in the store before and after has the
\* title, model and createdAt it had, and the mutating step of an append leaves the
\* id, title, model and createdAt of every record, position by position, as they
\* were, whatever model the append request carries.
C25_IdentityImmutable ==
    [][/\ \A c \in Records(LogicalStore(Store).chats) :
             \A e \in Records(LogicalStore(Store).chats)' :
                c.id = e.id => Identity(c) = Identity(e)
       /\ \A c \in Records(Hydrate(disk[Store]).chats) :
             \A e \in Records(Hydrate(disk[Store]).chats)' :
                c.id = e.id => Identity(c) = Identity(e)
       /\ \A n \in DOMAIN handler :
             (Writes(n) /\ IsAppend(handler[n])) =>
                Identities(LogicalStore(Store).chats)' = Identities(LogicalStore(Store).chats)
      ]_vars

\* C25 witness: an append carrying another model than the conversation's has been
\* answered with the conversation, which has two messages and is in the store.
C25_Witness ==
    \E n \in DOMAIN handler :
        /\ IsAppend(handler[n]) /\ Succeeded(handler[n])
        /\ handler[n].req.model # handler[n].resp.chat.model
        /\ Len(handler[n].resp.chat.messages) = 2
        /\ handler[n].resp.chat \in Records(LogicalStore(Store).chats)

\* C26: the record a new-conversation creation answers with has createdAt equal to
\* updatedAt, exactly the given message as its message list, and the model of the
\* request.
C26_CreationRecord ==
    \A n \in DOMAIN handler :
        (IsCreate(handler[n]) /\ Succeeded(handler[n])) =>
            /\ handler[n].resp.chat.createdAt = handler[n].resp.chat.updatedAt
            /\ handler[n].resp.chat.messages = <<handler[n].req.message>>
            /\ handler[n].resp.chat.model = handler[n].req.model

(***************************************************************************)
(* The message log of a record                                             *)
(***************************************************************************)
IsPrefix(s, t) == Len(s) <= Len(t) /\ SubSeq(t, 1, Len(s)) = s

\* C27: across every step, the message list of a record that is in the store before
\* and after starts with the list it was, and is at most one message longer; the
\* mutating step of an append makes the list of the conversation it names the old
\* list followed by the given message, and leaves the lists of the other records
\* as they were.
C27_LogGrows ==
    [][/\ \A c \in Records(LogicalStore(Store).chats) :
             \A e \in Records(LogicalStore(Store).chats)' :
                c.id = e.id =>
                   /\ IsPrefix(c.messages, e.messages)
                   /\ Len(e.messages) <= Len(c.messages) + 1
       /\ \A n \in DOMAIN handler :
             (Writes(n) /\ IsAppend(handler[n])) =>
                \A c \in Records(LogicalStore(Store).chats) :
                   \E e \in Records(LogicalStore(Store).chats)' :
                      /\ e.id = c.id
                      /\ e.messages = IF c.id = handler[n].req.id
                                      THEN Append(c.messages, handler[n].req.message)
                                      ELSE c.messages
      ]_vars

(***************************************************************************)
(* Evictions among records with equal updatedAt                            *)
(***************************************************************************)
\* Creations and appends handled one at a time, per behaviour; the first MAX_CHATS
\* of them are creations.
MaxTieReqs == 7

TieStart ==
    /\ Quiet
    /\ Len(handler) < MaxTieReqs
    /\ \E req \in CreateRequests({"gpt-4o"})
                  \cup {ReqAppend(i, MessageOf("assistant"), "gpt-4o") :
                           i \in IF Len(handler) < MAX_CHATS THEN {}
                                 ELSE Ids(LogicalStore(Store).chats)} :
          Start(Store, req, 0)
    /\ UNCHANGED route

TieNext ==
    \/ TieStart
    \/ \E n \in DOMAIN handler : BodyRead(n)
    \/ \E n \in DOMAIN handler : Hydrated(n)
    \/ \E n \in DOMAIN handler : PostChat(n)
    \/ \E n \in DOMAIN handler : Saved(n)
    \/ Quiet /\ Len(handler) >= MAX_CHATS /\ Tick

TieSpec == Init /\ [][TieNext]_vars

\* C28: the record that a creation evicts has, among the records that share its
\* updatedAt, the smallest id: ids are handed out in the order of the creations, so
\* it is the one that was inserted into the store first.
C28_TieByInsertion ==
    [][\A n \in DOMAIN handler :
          (CreateStep(n) /\ Len(LogicalStore(Store).chats) >= MAX_CHATS) =>
             \A g \in Records(LogicalStore(Store).chats) :
                g.id \notin Ids(LogicalStore(Store).chats)' =>
                   \A c \in Records(LogicalStore(Store).chats) :
                      c.updatedAt = g.updatedAt => g.id <= c.id
      ]_vars

(***************************************************************************)
(* The order of the steps of POST /api/chat                                *)
(***************************************************************************)
\* The completion of chat request r has been invoked and has not ended.
Completing(r) == route[r].kind = "chat" /\ route[r].pc = "stream"

\* C29: while the completion of a chat request is running, the conversation of the
\* request holds, persisted and in memory, exactly the messages read before the
\* completion was invoked, the last being the request's user message, and no step
\* taken then changes what is persisted or what the store holds in memory; a store
\* request carrying an assistant message exists for a chat request only once its
\* completion has ended; and [DONE] is written only by a request that has ended, as
\* the last event, after one content event per fragment in the order of arrival.
C29_TurnOrder ==
    /\ [] (\A r \in DOMAIN route :
              /\ Completing(r) =>
                    \A chats \in {InMemory(r), Persisted(r)} :
                       /\ TurnOf(r) \in Ids(chats)
                       /\ ChatById(chats, TurnOf(r)).messages = route[r].fullChat.messages
                       /\ IsUserMessageOf(route[r].fullChat.messages[Len(route[r].fullChat.messages)], r)
              /\ \A n \in DOMAIN handler :
                    (handler[n].owner = r /\ handler[n].req.message.role = "assistant") =>
                        route[r].pc \in {"assistant", "done"}
              /\ \A i \in 1..Len(route[r].sent) :
                    route[r].sent[i].done => (i = Len(route[r].sent) /\ route[r].pc = "done")
              /\ route[r].pc = "done" =>
                    /\ Len(route[r].sent) = route[r].chunks + 1
                    /\ route[r].sent[Len(route[r].sent)].done
                    /\ Forwarded(route[r].sent) = route[r].fullResponse)
    /\ [][(\E r \in DOMAIN route : Completing(r)) =>
              /\ disk' = disk
              /\ \A d \in Instances : LogicalStore(d)' = LogicalStore(d)]_vars

\* C29 witness: a chat request has ended after two fragments: three events were
\* written, [DONE] last, and the conversation holds the user message followed by
\* the assistant message made of the two fragments.
C29_Witness ==
    \E r \in DOMAIN route :
        /\ route[r].pc = "done" /\ route[r].chunks = 2
        /\ route[r].sent = <<ContentEvent(<<-1>>), ContentEvent(<<-2, -3>>), DoneEvent>>
        /\ Len(ChatById(Persisted(r), TurnOf(r)).messages) = 2
        /\ ChatById(Persisted(r), TurnOf(r)).messages[1].role = "user"
        /\ ChatById(Persisted(r), TurnOf(r)).messages[2].content = <<-1, -2, -3>>

(***************************************************************************)
(* Mutations of one store, their handlers interleaved at the awaits        *)
(***************************************************************************)
\* Concurrent mutating requests, per behaviour.
MaxGapReqs == 3

GapStart ==
    /\ Len(handler) < MaxGapReqs
    /\ \E req \in CreateRequests({"gpt-4o"}) \cup {ReqClear}
                  \cup {ReqAppend(i, MessageOf("assistant"), "gpt-4o") : i \in 1..nextId}
                  \cup {ReqDelete(i) : i \in 1..nextId}
                  \cup {ReqPutPrefs([NoPrefs EXCEPT !.hasTheme = TRUE, !.theme = "light"])} :
          Start(Store, req, 0)
    /\ UNCHANGED route

GapNext ==
    \/ GapStart
    \/ \E n \in DOMAIN handler : BodyRead(n)
    \/ \E n \in DOMAIN handler : Hydrated(n)
    \/ \E n \in DOMAIN handler : PostChat(n)
    \/ \E n \in DOMAIN handler : DeleteChat(n)
    \/ \E n \in DOMAIN handler : Preferences(n)
    \/ \E n \in DOMAIN handler : PutPreferences(n)
    \/ \E n \in DOMAIN handler : Saved(n)

GapSpec == Init /\ [][GapNext]_vars

\* Handler n takes the step that changes the state and calls saveStorage(), and the
\* write will succeed.
Saves(n) ==
    /\ n \in DOMAIN handler
    /\ handler[n].pc \in {"got", "body2"}
    /\ handler'[n].pc = "put"

\* C30: the state written to persistent storage by the mutating step of a handler
\* that goes on to answer 200 contains the handler's mutation: the created record
\* with its message, the appended message as the last of the conversation named,
\* no record of the deleted id, the preference given.
C30_WrittenStateHasMutation ==
    [][\A n \in DOMAIN handler :
          Saves(n) =>
             LET written == Hydrate(disk'[Store])
                 req == handler[n].req
             IN  /\ IsCreate(handler[n]) =>
                       \E c \in Records(written.chats) :
                          c.id = nextId' /\ c.messages = <<req.message>>
                 /\ IsAppend(handler[n]) =>
                       \E c \in Records(written.chats) :
                          c.id = req.id /\ c.messages[Len(c.messages)] = req.message
                 /\ req.kind = "delete" => req.id \notin Ids(written.chats)
                 /\ req.kind = "putPrefs" =>
                       /\ (req.prefs.hasTheme => written.preferences.theme = req.prefs.theme)
                       /\ (req.prefs.hasModel =>
                              written.preferences.defaultModel = req.prefs.defaultModel)
      ]_vars

(***************************************************************************)
(* Removals with other requests in flight                                  *)
(***************************************************************************)
\* Requests per behaviour.  A creation is handled alone; deletions, clears and
\* reads overlap freely.
MaxRemovalReqs == 3

Creating == \E n \in InFlight(handler) : IsCreate(handler[n])

RemovalStart ==
    /\ Len(handler) < MaxRemovalReqs
    /\ ~Creating
    /\ \E req \in (IF Quiet THEN CreateRequests({"gpt-4o"}) ELSE {})
                  \cup {ReqClear, ReqList} \cup {ReqDelete(i) : i \in 1..nextId} :
          Start(Store, req, 0)
    /\ UNCHANGED route

RemovalNext ==
    \/ RemovalStart
    \/ \E n \in DOMAIN handler : BodyRead(n)
    \/ \E n \in DOMAIN handler : Hydrated(n)
    \/ \E n \in DOMAIN handler : ListChats(n)
    \/ \E n \in DOMAIN handler : PostChat(n)
    \/ \E n \in DOMAIN handler : DeleteChat(n)
    \/ \E n \in DOMAIN handler : Saved(n)
    \/ Restart(Store)

RemovalSpec == Init /\ [][RemovalNext]_vars

\* The ids a handler that has answered 200 has removed: the id a DELETE /chats/:id
\* names, and for a DELETE /clear the ids of the conversations created by earlier
\* requests (a creation is over before the next request arrives).
RemovedBy(n) ==
    IF ~Succeeded(handler[n]) THEN {}
    ELSE IF handler[n].req.kind = "delete" THEN {handler[n].req.id}
    ELSE IF handler[n].req.kind = "clear"
    THEN {handler[m].resp.chat.id : m \in {k \in 1..(n - 1) : IsCreate(handler[k])}}
    ELSE {}

\* C31: no id removed by a DELETE /chats/:id or a DELETE /clear that has been
\* answered is the id of a record of the store, in memory or persisted.
C31_RemovedStaysRemoved ==
    \A n \in DOMAIN handler :
        \A i \in RemovedBy(n) :
            /\ i \notin Ids(LogicalStore(Store).chats)
            /\ i \notin Ids(Hydrate(disk[Store]).chats)

(***************************************************************************)
(* POST /api/chat with another request of the same user in flight          *)
(***************************************************************************)
\* Requests per behaviour: a chat request that opens a conversation, and one more
\* request of the same user arriving once the conversation exists.
MaxInterfereReqs == 2

InterfereStart ==
    /\ Len(route) < MaxInterfereReqs
    /\ IF route = <<>>
       THEN ChatPost("A", FALSE, UnknownId, "gpt-4o")
       ELSE /\ nextId > 0
            /\ \/ \E id \in 1..nextId : ChatPost("A", TRUE, id, "gpt-4o")
               \/ \E id \in 1..nextId : ConversationsCall("A", "delete", id)
               \/ ConversationsCall("A", "clear", UnknownId)

InterfereNext ==
    \/ InterfereStart
    \/ \E n \in DOMAIN handler : BodyRead(n)
    \/ \E n \in DOMAIN handler : Hydrated(n)
    \/ \E n \in DOMAIN handler : GetChat(n)
    \/ \E n \in DOMAIN handler : PostChat(n)
    \/ \E n \in DOMAIN handler : DeleteChat(n)
    \/ \E n \in DOMAIN handler : Saved(n)
    \/ \E r \in DOMAIN route : UserSaved(r)
    \/ \E r \in DOMAIN route : HistoryRead(r)
    \/ \E r \in DOMAIN route, chunk \in Chunks : OnChunk(r, chunk)
    \/ \E r \in DOMAIN route : CompletionFails(r)
    \/ \E r \in DOMAIN route : CompletionEnds(r)
    \/ \E r \in DOMAIN route : AssistantSaved(r)
    \/ \E r \in DOMAIN route : ConversationsReturn(r)

InterfereSpec == Init /\ [][InterfereNext]_vars

\* The [DONE] event has been written for chat request r.
DoneWritten(r) ==
    /\ route[r].kind = "chat"
    /\ \E i \in 1..Len(route[r].sent) : route[r].sent[i].done

\* C32: when [DONE] has been written for a chat request, the store has answered the
\* save of the request's assistant message with the conversation, whose last
\* message was then that assistant message.
C32_DoneMeansAppended ==
    \A r \in DOMAIN route :
        DoneWritten(r) =>
            LET saved == handler[route[r].h]
            IN  /\ saved.req.message.role = "assistant"
                /\ Succeeded(saved)
                /\ saved.resp.chat.id = TurnOf(r)
                /\ \E k \in 1..Len(saved.resp.chat.messages) :
                      saved.resp.chat.messages[k] = saved.req.message

\* The streamSSE callback of chat request r has called callAI with a message list.
CallAICalled(r) ==
    /\ route[r].kind = "chat"
    /\ route[r].pc \in {"stream", "assistant", "done"}

\* C33: the message list handed to callAI is the one of the conversation in which
\* the request's user message was saved, and its last message is that user message.
C33_HistoryEndsWithUserMessage ==
    \A r \in DOMAIN route :
        CallAICalled(r) =>
            LET messages == CallAIArgs(r).messages
            IN  /\ route[r].fullChat.id = TurnOf(r)
                /\ Len(messages) > 0
                /\ IsUserMessageOf(messages[Len(messages)], r)
                /\ \E k \in 1..Len(messages) : IsUserMessageOf(messages[k], r)

(***************************************************************************)
(* The first message of a conversation                                     *)
(***************************************************************************)
\* C34: every record of every store, in memory and persisted, has a first message
\* and its role is user, and every store request that creates a conversation
\* carries a user message.
C34_FirstMessageIsUsers ==
    /\ \A d \in Instances :
          \A c \in Records(LogicalStore(d).chats) \cup Records(Hydrate(disk[d]).chats) :
             Len(c.messages) >= 1 /\ c.messages[1].role = "user"
    /\ \A n \in DOMAIN handler :
          IsCreate(handler[n]) => handler[n].req.message.role = "user"

\* C34 witness: a chat request that named a conversation the store does not hold
\* is over, its save and its history read both answered 404, while the store holds
\* a conversation completed by an assistant message.
C34_Witness ==
    \E r \in DOMAIN route :
        /\ SaveDeclined(r) /\ route[r].pc = "failed" /\ ~route[r].fullChat.has
        /\ handler[route[r].h].resp.status = 404
        /\ \E c \in Records(LogicalStore(Store).chats) :
              Len(c.messages) = 2 /\ c.messages[2].role = "assistant"

(***************************************************************************)
(* The browser: the stores of scripts/store.ts, sendMessage, handleStream  *)
(***************************************************************************)
\* In the histories of ClientSpec mem holds the stores of one page, $activeChat as
\* mem.activeChat and $conversations as mem.conversations, and route[r] is the
\* r-th call of sendMessage.  The worker is what answers the calls: a response is
\* the fragments that its reader gives, one data line at a time.

\* Largest number of sendMessage calls in a history of ClientSpec.
MaxCalls == 2

\* Largest number of conversations handed to the page.
MaxCached == 2

ChatIds == 1..MaxCached

\* atom<string | null>(null)
NoActiveChat == UnknownId

\* map<Record<string, Conversation>>({})
NoConversations == [id \in {} |-> 0]

ClientInit ==
    /\ mem = [activeChat |-> NoActiveChat, conversations |-> NoConversations]
    /\ heap = <<>>
    /\ disk = [d \in Instances |-> Undefined]
    /\ now = 0
    /\ nextId = 0
    /\ handler = <<>>
    /\ route = <<>>

\* $activeChat.set(id), by the page
SetActiveChat(id) ==
    /\ id # mem.activeChat
    /\ mem' = [mem EXCEPT !.activeChat = id]
    /\ UNCHANGED <<heap, disk, now, nextId, handler, route>>

\* $conversations.setKey(id, conversation), by the page, with a conversation that
\* has no message yet
SetConversation(id) ==
    /\ id \notin DOMAIN mem.conversations
    /\ mem' = [mem EXCEPT !.conversations =
                  (id :> [id |-> id, title |-> <<>>, model |-> "gpt-4o", messages |-> <<>>]) @@ @]
    /\ UNCHANGED <<heap, disk, now, nextId, handler, route>>

\* JSON.stringify({ conversationId, message, model }): a null conversationId stays
\* in the body, as null.
RequestBody(conversationId, len, model) ==
    Body(IF conversationId = NoActiveChat THEN "null" ELSE "uuid", conversationId, len, TRUE, model)

\* sendMessage up to await fetch: part_005 lines 6-33.  active is the set of calls
\* that had not returned when this one was made.
SendMessage(model) ==
    LET r == Len(route) + 1
        conversationId == mem.activeChat
        message == <<r>>
    IN  /\ mem' = IF conversationId # NoActiveChat /\ conversationId \in DOMAIN mem.conversations
                  THEN [mem EXCEPT !.conversations[conversationId].messages =
                           Append(@, [role |-> "user", content |-> message])]
                  ELSE mem
        /\ route' = Append(route,
              [kind |-> "send", conversationId |-> conversationId, message |-> message,
               model |-> model, pc |-> "fetch", received |-> <<>>,
               body |-> RequestBody(conversationId, Len(message), model),
               active |-> {q \in DOMAIN route : route[q].pc # "done"}])
        /\ UNCHANGED <<heap, disk, now, nextId, handler>>

\* appendToCurrentMessage: part_004 lines 35-68
AppendToCurrentMessage(stores, content) ==
    LET activeChatId == stores.activeChat
    IN  IF activeChatId = NoActiveChat \/ activeChatId \notin DOMAIN stores.conversations
        THEN stores
        ELSE LET chat == stores.conversations[activeChatId]
                 n == Len(chat.messages)
                 updatedMessages ==
                     IF n > 0 /\ chat.messages[n].role = "assistant"
                     THEN [chat.messages EXCEPT ![n].content = @ \o content]
                     ELSE Append(chat.messages, [role |-> "assistant", content |-> content])
             IN  [stores EXCEPT !.conversations[activeChatId].messages = updatedMessages]

\* handleStream, one reader.read() that gives a data line with content: part_004
\* lines 9-26
ReadContent(r, content) ==
    /\ route[r].kind = "send" /\ route[r].pc \in {"fetch", "read"}
    /\ Len(route[r].received) < MaxChunks
    /\ mem' = AppendToCurrentMessage(mem, content)
    /\ route' = [route EXCEPT ![r].pc = "read", ![r].received = Append(@, content)]
    /\ UNCHANGED <<heap, disk, now, nextId, handler>>

\* handleStream returns: no body, the end of the body, or [DONE]: part_004 lines
\* 7, 11 and 19
ReadDone(r) ==
    /\ route[r].kind = "send" /\ route[r].pc \in {"fetch", "read"}
    /\ route' = [route EXCEPT ![r].pc = "done"]
    /\ UNCHANGED <<mem, heap, disk, now, nextId, handler>>

ClientStart ==
    /\ Len(route) < MaxCalls
    /\ SendMessage("gpt-4o")

ClientNext ==
    \/ \E id \in ChatIds \cup {NoActiveChat} : SetActiveChat(id)
    \/ \E id \in ChatIds : SetConversation(id)
    \/ ClientStart
    \/ \E r \in DOMAIN route, content \in Chunks : ReadContent(r, content)
    \/ \E r \in DOMAIN route : ReadDone(r)

ClientSpec == ClientInit /\ [][ClientNext]_vars

RECURSIVE AssistantText(_)
\* What the assistant messages of a message list say, one after the other.
AssistantText(messages) ==
    IF messages = <<>> THEN <<>>
    ELSE (IF Head(messages).role = "assistant" THEN Head(messages).content ELSE <<>>)
             \o AssistantText(Tail(messages))

\* This step hands a fragment of call r to appendToCurrentMessage.
Received(r) == r \in DOMAIN route /\ route'[r].received # route[r].received

\* C35: a fragment that handleStream receives for a call of sendMessage is added
\* to the assistant text of the conversation that was active when the call was
\* made, and to no other conversation, whatever $activeChat is by then.
C35_FragmentsToIssuingChat ==
    [][\A r \in DOMAIN route :
          LET c == route[r].conversationId
          IN  (Received(r) /\ c # NoActiveChat /\ c \in DOMAIN mem.conversations) =>
                 /\ AssistantText(mem'.conversations[c].messages) =
                       AssistantText(mem.conversations[c].messages)
                           \o route'[r].received[Len(route'[r].received)]
                 /\ \A id \in DOMAIN mem.conversations \ {c} :
                       mem'.conversations[id] = mem.conversations[id]]_vars

RECURSIVE Flat(_)
\* The in-order concatenation of fragments.
Flat(fragments) ==
    IF fragments = <<>> THEN <<>> ELSE Head(fragments) \o Flat(Tail(fragments))

\* Message k of conversation c is an assistant message that holds the fragments
\* of call r and nothing else.
HoldsResponse(c, k, r) ==
    /\ k \in DOMAIN mem.conversations[c].messages
    /\ mem.conversations[c].messages[k].role = "assistant"
    /\ mem.conversations[c].messages[k].content = Flat(route[r].received)

\* C36: once two calls of sendMessage for the same conversation, the second made
\* before the first returned, have both returned with fragments, the conversation
\* holds two different assistant messages, one with the fragments of the first
\* call in order and one with those of the second.
C36_OverlappingResponsesApart ==
    \A p, q \in DOMAIN route :
        LET c == route[p].conversationId
        IN  ( /\ p \in route[q].active
              /\ c = route[q].conversationId /\ c \in DOMAIN mem.conversations
              /\ route[p].pc = "done" /\ route[q].pc = "done"
              /\ route[p].received # <<>> /\ route[q].received # <<>> ) =>
                \E k, l \in DOMAIN mem.conversations[c].messages :
                    k # l /\ HoldsResponse(c, k, p) /\ HoldsResponse(c, l, q)

(***************************************************************************)
(* Preferences under the operations of the store                           *)
(***************************************************************************)
\* Handler n is entered or takes a step.
Acts(n) == n \in DOMAIN handler' /\ (n \in DOMAIN handler => handler'[n] # handler[n])

PreferencesOf(d) == <<LogicalStore(d).preferences, Hydrate(disk[d]).preferences>>

\* C37: after DELETE /clear, as long as no other request has arrived, the store
\* holds the default preferences and no record, in memory and persisted; and a step
\* changes the preferences of a store, in memory or persisted, only if it is a step
\* of a DELETE /clear or of a PUT /preferences.
C37_ClearResetsPreferences ==
    /\ [] (\A n \in DOMAIN handler :
              (IsClear(handler[n]) /\ n = Len(handler)) =>
                  /\ LogicalStore(Store).preferences = DefaultPreferences
                  /\ LogicalStore(Store).chats = <<>>
                  /\ Hydrate(disk[Store]) = [chats |-> <<>>, preferences |-> DefaultPreferences]
                  /\ disk[Store].has)
    /\ [][\A d \in Instances :
              PreferencesOf(d)' # PreferencesOf(d) =>
                  \E n \in DOMAIN handler' :
                      Acts(n) /\ handler'[n].req.kind \in {"clear", "putPrefs"}]_vars

\* C37 witness: a DELETE /clear has been answered after a PUT /preferences that set
\* the theme to light and a creation in between.
C37_Witness ==
    /\ Len(handler) = 3
    /\ handler[1].req.kind = "putPrefs" /\ handler[1].req.prefs.hasTheme
    /\ Succeeded(handler[1]) /\ handler[1].resp.prefs.theme = "light"
    /\ IsCreate(handler[2]) /\ Succeeded(handler[2])
    /\ IsClear(handler[3]) /\ Succeeded(handler[3])
    /\ Hydrate(disk[Store]).preferences.theme = "dark"

(***************************************************************************)
(* POST /api/chat with the bodies that sendMessage sends                   *)
(***************************************************************************)
\* Largest number of chat requests in a history of NewChatSpec.
MaxNewChatReqs == 2

\* A chat request arrives once the one before is over: one that sendMessage sent
\* with no active conversation or with a conversation of the store active, or one
\* whose body has no conversationId.
NewChatStart ==
    /\ Finished(route) /\ \A n \in DOMAIN handler : handler[n].pc = "done"
    /\ Len(route) < MaxNewChatReqs
    /\ \/ \E conversationId \in {NoActiveChat} \cup (1..nextId) :
             ChatRequest("A", RequestBody(conversationId, MIN_MESSAGE, "gpt-4o"))
       \/ ChatRequest("A", Body("absent", UnknownId, MIN_MESSAGE, TRUE, "gpt-4o"))

NewChatNext ==
    \/ NewChatStart
    \/ \E n \in DOMAIN handler : BodyRead(n)
    \/ \E n \in DOMAIN handler : Hydrated(n)
    \/ \E n \in DOMAIN handler : GetChat(n)
    \/ \E n \in DOMAIN handler : PostChat(n)
    \/ \E n \in DOMAIN handler : Saved(n)
    \/ \E r \in DOMAIN route : UserSaved(r)
    \/ \E r \in DOMAIN route : HistoryRead(r)
    \/ \E r \in DOMAIN route, chunk \in Chunks : OnChunk(r, chunk)
    \/ \E r \in DOMAIN route : CompletionFails(r)
    \/ \E r \in DOMAIN route : CompletionEnds(r)
    \/ \E r \in DOMAIN route : AssistantSaved(r)

NewChatSpec == Init /\ [][NewChatNext]_vars

\* C38: a chat request whose body carries conversationId null is not answered 400,
\* and the route asks the user's store to create a conversation for it, which the
\* store, once it has answered, has done.
C38_NullConversationIdCreates ==
    \A r \in DOMAIN route :
        (route[r].kind = "chat" /\ route[r].body.idForm = "null") =>
            /\ route[r].out.status # 400
            /\ \E n \in DOMAIN handler :
                  /\ handler[n].owner = r /\ IsCreate(handler[n])
                  /\ handler[n].pc = "done" => Succeeded(handler[n])

(***************************************************************************)
(* The content of a persisted assistant message                            *)
(***************************************************************************)
\* C39: no assistant message of any record, in memory or persisted, has empty
\* content, and a chat request whose completion produced no fragment asks the
\* store to append no assistant message.
C39_AssistantContentNonEmpty ==
    /\ \A d \in Instances :
          \A c \in Records(LogicalStore(d).chats) \cup Records(Hydrate(disk[d]).chats) :
             \A k \in DOMAIN c.messages :
                c.messages[k].role = "assistant" => c.messages[k].content # <<>>
    /\ \A r \in DOMAIN route :
          (route[r].kind = "chat" /\ route[r].chunks = 0) =>
              \A n \in DOMAIN handler :
                 handler[n].owner = r => handler[n].req.message.role # "assistant"

====
